---- MODULE Spec2Model ----
(***************************************************************************)
(* Verification model of the Kaisen log collection backend                 *)
(* (Backend/minip/src): the LogCollector orchestrator (start / stop / the  *)
(* scheduling loop / collect_once), and the components it drives.          *)
(*                                                                         *)
(* The specifications of the module share its variables (FairSpec and      *)
(* SpecStop are Spec with fairness):                                       *)
(*   Spec        the orchestrator's threads: the controlling thread        *)
(*               calling start(), stop() and collect_once(), and the       *)
(*               background threads running _schedule_collection;          *)
(*   SpecCycle   one thread running collect_once cycles, stage by stage,   *)
(*               with every stage free to fail;                            *)
(*   SpecStore   StorageManager.save_log / save_alert, attempt by attempt, *)
(*               against the history and the alert file;                   *)
(*   SpecAlert   AlertEngine: construction and process_prediction;         *)
(*   SpecGraph   GraphEngine: its operations called on a given graph;      *)
(*   SpecRemote  RemoteLogCollector.collect_from_all, request by request;  *)
(*   SpecStartup the process from main() to its exit;                      *)
(*   SpecPropagate  GraphEngine.propagate_risk, one iteration of its queue *)
(*               loop at a time, on graphs with cycles and self-loops;     *)
(*   SpecOps     GraphEngine: sequences of its public operations, from the *)
(*               empty graph;                                              *)
(*   SpecConcurrent  save_log called by the background thread and by the   *)
(*               controlling thread on the same history file, step by step.*)
(***************************************************************************)
EXTENDS Integers, Sequences, FiniteSets, TLC

(***************************************************************************)
(* Bounds of the model.                                                    *)
(***************************************************************************)
\* threads that start() may spawn in one behaviour
MaxThreads == 2
\* config.collection_interval_seconds, counted in ticks of the interval wait
IntervalTicks == 1
\* the join timeout of stop(), in seconds (ticks of the join wait)
JoinTimeout == 5

VARIABLES
    \* ---- LogCollector: collection control (log_collector.py 155-158)
    running,            \* self.running
    stopEvent,          \* self._stop_event (TRUE = set)
    collectionThread,   \* self.collection_thread: 0 = None, else a thread id
    \* ---- the threads
    wpc,                \* per background thread: where it is in _schedule_collection
    waitLeft,           \* per background thread: ticks left of its interval wait
    ctl,                \* the controlling thread: "idle", "join" or a cycle stage
    joinLeft,           \* ticks left of the join of stop()
    ctlLog,             \* the last line start() / stop() logged
    \* ---- one collect_once cycle (SpecCycle)
    cpc,                \* "idle", a stage of the cycle, or "escaped"
    fv,                 \* feature_vector: "none" until Step 3 has built it
    remoteLogs,         \* remote_logs: node ids of the fetched remote snapshots
    prediction,         \* prediction of the local snapshot
    alert,              \* alert of the local snapshot
    rIdx,               \* position of the Step 10 loop in remote_logs
    ret,                \* what the last collect_once returned
    failed,             \* the stages of this cycle that failed
    rOutcome,           \* per remote snapshot: how its processing ended
    \* ---- durable state shared by cycles
    graph,              \* GraphEngine.graph: nodes and edges
    history,            \* history.json, as the orchestrator sees it
    alertsFile,         \* alerts.json, as the orchestrator sees it
    hist0,              \* Len(history) when the current cycle began
    alerts0,            \* Len(alertsFile) when the current cycle began
    cycleNo,            \* the number of the current cycle (cycles begun so far)
    persisted,          \* the records written to the two files, in the order written
    \* ---- StorageManager (SpecStore)
    files,              \* per file: what the file on disk holds
    base,               \* per file: what it held when the manager was constructed
    spc,                \* "new", "idle", or the step of the save in progress
    sfile,              \* the file the save in progress writes
    sentry,             \* the entry the save in progress appends
    sattempt,           \* attempt of the retry loop
    slept,              \* the backoff waits of the save in progress, in tenths of a second
    sdata,              \* data: the list the attempt has in memory
    sresult,            \* what the last save returned
    saved,              \* per file: the entries whose save returned True, in call order
    unsaved,            \* per file: the number of saves that did not return True
    nCalls,             \* save calls so far
    sstart,             \* what the file held when the save in progress was called
    writes,             \* calls of _write_to_file by the save in progress
    sfaults,            \* what went wrong in the save in progress
    \* ---- AlertEngine (SpecAlert)
    apc,                \* "new", "rejected", "ready", "called", "severity" or "ips"
    threshold,          \* self.threshold
    aIn,                \* the arguments of the last process_prediction call
    aOut,               \* what that call returned
    sevIn,              \* the score _calculate_severity was called with
    sevOut,             \* what it returned
    ipIn,               \* the dictionaries identify_suspicious_ips was called with
    ipOut,              \* what it returned
    \* ---- GraphEngine called directly (SpecGraph; the graph is graph above)
    gpc,                \* "new", "built", "propagated", "mutated", "searched" or "exported"
    g0,                 \* the graph before the last operation
    gOp,                \* the last operation, its arguments and its error
    bestPath,           \* what find_highest_risk_path returned
    exports,            \* what the export_json calls returned, in order
    \* ---- RemoteLogCollector (SpecRemote)
    rpc,                \* "idle", "attempt", "returned" or "done"
    rEndpoint,          \* position of collect_from_all in self.endpoints
    rattempt,           \* attempt of collect_from_endpoint
    nRequests,          \* HTTP requests made by the current collect_from_endpoint
    rBackoffs,          \* the backoff times it slept, in seconds
    rLast,              \* how the last request of the current collect_from_endpoint ended
    rOut,               \* what it returned
    allLogs,            \* all_logs of collect_from_all
    rCalls,             \* the endpoints collect_from_endpoint was called with, in order
    rReturns,           \* what these calls returned, in order
    \* ---- the process from main() on (SpecStartup)
    mpc,                \* where main is: "begin", "detect_os", "load_model", "components",
                        \* "constructed", "running", "returned" or "exited"
    mcmd,               \* the command: "start", "collect-once" or "export-graph"
    mOs,                \* collector.os_type
    exitCode,           \* the exit status of the process, -1 while it runs
    mRunning,           \* collector.running
    mCycles,            \* collection cycles executed
    mErrors,            \* the categories of the errors handled, in order
    \* ---- GraphEngine.propagate_risk, step by step (SpecPropagate)
    ppc,                \* "new", "sources" (the for loop), "queue" (the while loop), "done"
    pGraph,             \* self.graph
    pGraph0,            \* the graph propagate_risk was called on
    pSources,           \* the high_risk_nodes the for loop has yet to take
    pSource,            \* source
    pQueue,             \* queue
    pVisited,           \* visited
    pEnqueued,          \* the nodes put on the queue in this traversal, in order
    pUpdated,           \* the nodes whose risk_score this traversal has written, in order
    \* ---- sequences of operations of the GraphEngine (SpecOps)
    nOps,               \* operations called so far
    lastFv,             \* the feature vector of the last add_ip_nodes_from_feature_vector
    ipScore,            \* the arguments and the result of the last _compute_ip_anomaly
    \* ---- save_log on two threads (SpecConcurrent)
    hfile,              \* what history.json holds
    svpc,               \* per thread: "idle" or the step of its save_log: "read", "open",
                        \* "dump", "validate"
    sventry,            \* per thread: the entry its save_log appends
    svdata,             \* per thread: data, the list its attempt has in memory
    svattempt,          \* per thread: attempt of its retry loop
    svcalls,            \* per thread: save_log calls so far
    svTrue,             \* the entries whose save_log returned True
    overlapped          \* a save_log began or went on while the other thread was in one

lifeVars == <<running, stopEvent, collectionThread, wpc, waitLeft, ctl, joinLeft, ctlLog>>

cycleVars == <<cpc, fv, remoteLogs, prediction, alert, rIdx, ret, failed, rOutcome,
               graph, history, alertsFile, hist0, alerts0, cycleNo, persisted>>

storeVars == <<files, base, spc, sfile, sentry, sattempt, slept, sdata, sresult, saved,
               unsaved, nCalls, sstart, writes, sfaults>>

alertVars == <<apc, threshold, aIn, aOut, sevIn, sevOut, ipIn, ipOut>>

graphVars == <<gpc, g0, gOp, bestPath, exports>>

remoteVars == <<rpc, rEndpoint, rattempt, nRequests, rBackoffs, rLast, rOut, allLogs,
                rCalls, rReturns>>

startVars == <<mpc, mcmd, mOs, exitCode, mRunning, mCycles, mErrors>>

propVars == <<ppc, pGraph, pGraph0, pSources, pSource, pQueue, pVisited, pEnqueued, pUpdated>>

opsVars == <<nOps, lastFv, ipScore>>

concVars == <<hfile, svpc, sventry, svdata, svattempt, svcalls, svTrue, overlapped>>

vars == <<lifeVars, cycleVars, storeVars, alertVars, graphVars, remoteVars, startVars,
          propVars, opsVars, concVars>>

\* what the actions of each part leave alone
notLife == <<cycleVars, storeVars, alertVars, graphVars, remoteVars, startVars, propVars,
            opsVars, concVars>>
notCycle == <<lifeVars, storeVars, alertVars, graphVars, remoteVars, startVars, propVars,
            opsVars, concVars>>
notStore == <<lifeVars, cycleVars, alertVars, graphVars, remoteVars, startVars, propVars,
            opsVars, concVars>>
notAlert == <<lifeVars, cycleVars, storeVars, graphVars, remoteVars, startVars, propVars,
            opsVars, concVars>>
notGraph == <<lifeVars, storeVars, alertVars, remoteVars, startVars, propVars, opsVars, concVars, cpc, fv, remoteLogs, prediction,
              alert, rIdx, ret, failed, rOutcome, history, alertsFile, hist0, alerts0, cycleNo, persisted>>
notRemote == <<lifeVars, cycleVars, storeVars, alertVars, graphVars, startVars, propVars,
            opsVars, concVars>>
notStart == <<lifeVars, cycleVars, storeVars, alertVars, graphVars, remoteVars, propVars,
            opsVars, concVars>>
notProp == <<lifeVars, cycleVars, storeVars, alertVars, graphVars, remoteVars, startVars,
            opsVars, concVars>>
notConc == <<lifeVars, cycleVars, storeVars, alertVars, graphVars, remoteVars, startVars,
            propVars, opsVars>>
notOps == <<lifeVars, storeVars, alertVars, remoteVars, startVars, propVars, concVars, cpc, fv,
            remoteLogs, prediction, alert, rIdx, ret, failed, rOutcome, history, alertsFile,
            hist0, alerts0, cycleNo, persisted, gpc, bestPath, exports>>

Threads == 1..MaxThreads

(***************************************************************************)
(* The stages of one collect_once cycle, named after the steps of the code *)
(* ("Step 1" .. "Step 10").                                                *)
(***************************************************************************)
Stages == {"metrics", "remote_fetch", "process", "validate", "predict",
           "alert", "graph", "save_log", "save_alert", "remote_process"}

\* stages that read or write the attack graph or the history / alert files
SharedStages == {"graph", "save_log", "save_alert", "remote_process"}

(***************************************************************************)
(* Control flow of collect_once: the positions a cycle can be at after     *)
(* stage s ("end" = collect_once has returned).  A failure of metric       *)
(* collection, processing or validation returns None at once; a failed     *)
(* prediction skips alert generation; without an alert, save_alert is      *)
(* skipped.                                                                *)
(***************************************************************************)
StageSucc(s) ==
    CASE s = "metrics"        -> {"remote_fetch", "end"}
      [] s = "remote_fetch"   -> {"process"}
      [] s = "process"        -> {"validate", "end"}
      [] s = "validate"       -> {"predict", "end"}
      [] s = "predict"        -> {"alert", "graph"}
      [] s = "alert"          -> {"graph"}
      [] s = "graph"          -> {"save_log"}
      [] s = "save_log"       -> {"save_alert", "remote_process"}
      [] s = "save_alert"     -> {"remote_process"}
      [] s = "remote_process" -> {"end"}

Alive(t) == wpc[t] \notin {"unborn", "done"}

InCycle(t) == wpc[t] \in Stages

InitLife ==
    /\ running = FALSE
    /\ stopEvent = FALSE
    /\ collectionThread = 0
    /\ wpc = [t \in Threads |-> "unborn"]
    /\ waitLeft = [t \in Threads |-> 0]
    /\ ctl = "idle"
    /\ joinLeft = 0
    /\ ctlLog = "none"

(***************************************************************************)
(* start(): a no-op when already running; otherwise sets running, clears   *)
(* the stop event and spawns a new thread running _schedule_collection.    *)
(***************************************************************************)
\* start() without its "already running" check
StartUnguarded ==
    /\ UNCHANGED notLife
    /\ ctl = "idle"
    /\ \E t \in Threads :
          /\ wpc[t] = "unborn"
          /\ \A u \in Threads : u < t => wpc[u] # "unborn"
          /\ wpc' = [wpc EXCEPT ![t] = "loop"]
          /\ collectionThread' = t
    /\ running' = TRUE
    /\ stopEvent' = FALSE
    /\ ctlLog' = "started"
    /\ UNCHANGED <<waitLeft, ctl, joinLeft>>

Start ==
    /\ UNCHANGED notLife
    /\ ctl = "idle"
    /\ IF running
       THEN /\ ctlLog' = "already_running"
            /\ UNCHANGED <<running, stopEvent, collectionThread, wpc, waitLeft, ctl, joinLeft>>
       ELSE /\ \E t \in Threads :
                 /\ wpc[t] = "unborn"
                 /\ \A u \in Threads : u < t => wpc[u] # "unborn"
                 /\ wpc' = [wpc EXCEPT ![t] = "loop"]
                 /\ collectionThread' = t
            /\ running' = TRUE
            /\ stopEvent' = FALSE
            /\ ctlLog' = "started"
            /\ UNCHANGED <<waitLeft, ctl, joinLeft>>

(***************************************************************************)
(* stop(), up to the join: a no-op when not running; otherwise clears      *)
(* running, sets the stop event and, if the collection thread is alive,    *)
(* joins it with a timeout.                                                *)
(***************************************************************************)
StopCall ==
    /\ UNCHANGED notLife
    /\ ctl = "idle"
    /\ IF ~running
       THEN /\ ctlLog' = "not_running"
            /\ UNCHANGED <<running, stopEvent, collectionThread, wpc, waitLeft, ctl, joinLeft>>
       ELSE /\ running' = FALSE
            /\ stopEvent' = TRUE
            /\ IF collectionThread # 0 /\ Alive(collectionThread)
               THEN ctl' = "join" /\ joinLeft' = JoinTimeout /\ ctlLog' = "stopping"
               ELSE ctlLog' = "stopped" /\ UNCHANGED <<ctl, joinLeft>>
            /\ UNCHANGED <<collectionThread, wpc, waitLeft>>

\* one second of the join passes with the thread still alive
StopJoinTick ==
    /\ UNCHANGED notLife
    /\ ctl = "join"
    /\ joinLeft > 0
    /\ Alive(collectionThread)
    /\ joinLeft' = joinLeft - 1
    /\ UNCHANGED <<running, stopEvent, collectionThread, wpc, waitLeft, ctl, ctlLog>>

\* a join() without timeout returns only when the thread has finished
JoinWithoutTimeout(t, left) == ~Alive(t)

\* join(timeout=5.0) returns: the thread has finished, or the timeout expired
JoinReturns(t, left) == ~Alive(t) \/ left = 0

StopJoinReturn ==
    /\ UNCHANGED notLife
    /\ ctl = "join"
    /\ JoinReturns(collectionThread, joinLeft)
    /\ ctl' = "idle"
    /\ joinLeft' = 0
    /\ ctlLog' = IF Alive(collectionThread) THEN "stopped_timeout" ELSE "stopped_joined"
    /\ UNCHANGED <<running, stopEvent, collectionThread, wpc, waitLeft>>

(***************************************************************************)
(* collect_once() called synchronously on the controlling thread.          *)
(***************************************************************************)
CtlCollectBegin ==
    /\ UNCHANGED notLife
    /\ ctl = "idle"
    /\ ctl' = "metrics"
    /\ UNCHANGED <<running, stopEvent, collectionThread, wpc, waitLeft, joinLeft, ctlLog>>

CtlCollectStage ==
    /\ UNCHANGED notLife
    /\ ctl \in Stages
    /\ \E n \in StageSucc(ctl) : ctl' = IF n = "end" THEN "idle" ELSE n
    /\ UNCHANGED <<running, stopEvent, collectionThread, wpc, waitLeft, joinLeft, ctlLog>>

(***************************************************************************)
(* _schedule_collection, run by background thread t.                       *)
(***************************************************************************)
\* a loop that never looks at the stop event
LoopIgnoresStop(ev) == TRUE

\* while not self._stop_event.is_set(): ... collect_once()
LoopContinues(ev) == ~ev

WorkerLoopCheck(t) ==
    /\ UNCHANGED notLife
    /\ wpc[t] = "loop"
    /\ wpc' = [wpc EXCEPT ![t] = IF LoopContinues(stopEvent) THEN "metrics" ELSE "done"]
    /\ UNCHANGED <<running, stopEvent, collectionThread, waitLeft, ctl, joinLeft, ctlLog>>

\* one stage of the cycle; after the last one, the interval wait begins
WorkerStage(t) ==
    /\ UNCHANGED notLife
    /\ wpc[t] \in Stages
    /\ \E n \in StageSucc(wpc[t]) :
          IF n = "end"
          THEN /\ wpc' = [wpc EXCEPT ![t] = "wait"]
               /\ waitLeft' = [waitLeft EXCEPT ![t] = IntervalTicks]
          ELSE /\ wpc' = [wpc EXCEPT ![t] = n]
               /\ UNCHANGED waitLeft
    /\ UNCHANGED <<running, stopEvent, collectionThread, ctl, joinLeft, ctlLog>>

\* self._stop_event.wait(interval): time passes only while the event is clear
WaitSleeps(ev, left) == ~ev /\ left > 0

WorkerWaitTick(t) ==
    /\ UNCHANGED notLife
    /\ wpc[t] = "wait"
    /\ WaitSleeps(stopEvent, waitLeft[t])
    /\ waitLeft' = [waitLeft EXCEPT ![t] = waitLeft[t] - 1]
    /\ UNCHANGED <<running, stopEvent, collectionThread, wpc, ctl, joinLeft, ctlLog>>

\* the wait returns: the event is set, or the interval has elapsed
WaitReturns(ev, left) == ev \/ left = 0

WorkerWaitReturn(t) ==
    /\ UNCHANGED notLife
    /\ wpc[t] = "wait"
    /\ WaitReturns(stopEvent, waitLeft[t])
    /\ wpc' = [wpc EXCEPT ![t] = "loop"]
    /\ waitLeft' = [waitLeft EXCEPT ![t] = 0]
    /\ UNCHANGED <<running, stopEvent, collectionThread, ctl, joinLeft, ctlLog>>

WorkerStep(t) ==
    \/ WorkerLoopCheck(t)
    \/ WorkerStage(t)
    \/ WorkerWaitTick(t)
    \/ WorkerWaitReturn(t)

(***************************************************************************)
(* Data of the cycle model.  Scores are in thousandths (0 .. 1000).        *)
(***************************************************************************)
\* the remote endpoints, in the order collect_from_all visits them
Endpoints == <<"r1", "r2">>

LocalNode == "local"

IpIds == {"ip1", "ip2"}

\* scores the scorer may return: one below and one above the alert threshold
Scores == {300, 900}

\* config.anomaly_threshold
AlertThreshold == 700

\* decay_factor of propagate_risk, as DecayNum / DecayDen
DecayNum == 7
DecayDen == 10

\* the score the scorer gives each remote node's snapshot
RemoteScore(r) == IF r = "r1" THEN 900 ELSE 300

\* new cycles begin only while the two files together hold at most this
\* many records
MaxStored == 1

\* the snapshot each node delivers (the IP fields of its FeatureVector)
SnapshotOf(n) ==
    CASE n = "local" ->
            [node_id |-> "local", source_ips |-> <<>>, destination_ips |-> <<"ip1">>,
             connection_count_per_ip |-> [i \in IpIds |-> IF i = "ip1" THEN 120 ELSE 0],
             failed_attempts_per_ip |-> [i \in IpIds |-> 0]]
      [] n = "r1" ->
            [node_id |-> "r1", source_ips |-> <<"ip1">>, destination_ips |-> <<"ip2">>,
             connection_count_per_ip |-> [i \in IpIds |-> 0],
             failed_attempts_per_ip |-> [i \in IpIds |-> IF i = "ip2" THEN 8 ELSE 0]]
      [] OTHER ->
            [node_id |-> n, source_ips |-> <<>>, destination_ips |-> <<>>,
             connection_count_per_ip |-> [i \in IpIds |-> 0],
             failed_attempts_per_ip |-> [i \in IpIds |-> 0]]

NoPrediction == [ok |-> FALSE, anomaly_score |-> 0]

NoAlert == [present |-> FALSE, node_id |-> "", anomaly_score |-> 0]

Min(a, b) == IF a < b THEN a ELSE b

Max(a, b) == IF a > b THEN a ELSE b

SeqRange(q) == {q[i] : i \in 1..Len(q)}

(***************************************************************************)
(* GraphEngine.  A graph is [nodes, edges]: nodes maps each node id of the *)
(* graph to its attributes, edges maps each <<source, target>> to its      *)
(* edge type.                                                              *)
(***************************************************************************)
EmptyGraph == [nodes |-> [m \in {} |-> 0], edges |-> [e \in {} |-> ""]]

HasNode(g, n) == n \in DOMAIN g.nodes

\* metadata = {}
EmptyMetadata == [k \in {} |-> 0]

\* a node created by add_edge has no attribute; the code reads its
\* attributes with .get(name, default), so it is the node of the defaults
BareNode ==
    [node_type |-> "unknown", anomaly_score |-> 0, risk_score |-> 0,
     metadata |-> EmptyMetadata]

\* the attributes add_node always writes
NodeDefaults(type) ==
    [node_type |-> type, anomaly_score |-> 0, risk_score |-> 0,
     metadata |-> EmptyMetadata]

\* no attributes given
NoAttributes == [k \in {} |-> 0]

\* add_node(node_id, node_type, attributes) with a known type: the defaults
\* overlaid with the attributes are written over the node, also over the
\* attributes of an existing node
AddNodeWith(g, n, type, attrs) ==
    [g EXCEPT !.nodes =
        [m \in (DOMAIN g.nodes) \cup {n} |->
            IF m = n
            THEN [a \in DOMAIN NodeDefaults(type) |->
                      IF a \in DOMAIN attrs THEN attrs[a]
                      ELSE NodeDefaults(type)[a]]
            ELSE g.nodes[m]]]

\* add_node with no anomaly_score / risk_score among the attributes
AddNode(g, n, type) == AddNodeWith(g, n, type, NoAttributes)

\* add_edge(source, target, edge_type) with a known type: the end points
\* are created bare if absent, the type of an existing edge is overwritten
AddEdge(g, source, target, type) ==
    [nodes |-> [m \in (DOMAIN g.nodes) \cup {source, target} |->
                   IF m \in DOMAIN g.nodes THEN g.nodes[m] ELSE BareNode],
     edges |-> [e \in (DOMAIN g.edges) \cup {<<source, target>>} |->
                   IF e = <<source, target>> THEN type ELSE g.edges[e]]]

\* update_anomaly_score on a node of the graph
UpdateAnomalyScore(g, n, score) ==
    [g EXCEPT !.nodes[n].anomaly_score = score]

\* the thresholds are inclusive
ComputeIpAnomalyInclusive(connection_count, failed_attempts) ==
    LET a1 == IF connection_count >= 50
              THEN Min(500, (connection_count * 1000) \div 200) ELSE 0
        a2 == IF failed_attempts >= 5
              THEN Min(500, (failed_attempts * 1000) \div 20) ELSE 0
    IN Min(1000, a1 + a2)

\* _compute_ip_anomaly
ComputeIpAnomaly(connection_count, failed_attempts) ==
    LET a1 == IF connection_count > 50
              THEN Min(500, (connection_count * 1000) \div 200) ELSE 0
        a2 == IF failed_attempts > 5
              THEN Min(500, (failed_attempts * 1000) \div 20) ELSE 0
    IN Min(1000, a1 + a2)

\* every edge to a destination IP is written as ip_connection, and the
\* source IPs get an edge as well
AddIpNodesOverwritingEdges(g, snap) ==
    LET g1 == IF HasNode(g, snap.node_id) THEN g ELSE AddNode(g, snap.node_id, "machine")
        allIps == SeqRange(snap.source_ips) \cup SeqRange(snap.destination_ips)
        ipAnomaly(i) == ComputeIpAnomaly(snap.connection_count_per_ip[i],
                                         snap.failed_attempts_per_ip[i])
        ipMetadata(i) == [connection_count |-> snap.connection_count_per_ip[i],
                          failed_attempts |-> snap.failed_attempts_per_ip[i]]
        nodes2 ==
            [m \in (DOMAIN g1.nodes) \cup allIps |->
                IF m \in allIps
                THEN IF m \in DOMAIN g1.nodes
                     THEN [g1.nodes[m] EXCEPT
                              !.anomaly_score = Max(g1.nodes[m].anomaly_score, ipAnomaly(m)),
                              !.metadata = ipMetadata(m)]
                     ELSE [node_type |-> "external_ip",
                           anomaly_score |-> Max(0, ipAnomaly(m)), risk_score |-> 0,
                           metadata |-> ipMetadata(m)]
                ELSE g1.nodes[m]]
        newEdges == {<<snap.node_id, d>> : d \in allIps}
        edges2 ==
            [e \in (DOMAIN g1.edges) \cup newEdges |->
                IF e \in newEdges THEN "ip_connection" ELSE g1.edges[e]]
    IN [nodes |-> nodes2, edges |-> edges2]

\* add_ip_nodes_from_feature_vector
AddIpNodesFromFeatureVector(g, snap) ==
    LET g1 == IF HasNode(g, snap.node_id) THEN g ELSE AddNode(g, snap.node_id, "machine")
        allIps == SeqRange(snap.source_ips) \cup SeqRange(snap.destination_ips)
        ipAnomaly(i) == ComputeIpAnomaly(snap.connection_count_per_ip[i],
                                         snap.failed_attempts_per_ip[i])
        ipMetadata(i) == [connection_count |-> snap.connection_count_per_ip[i],
                          failed_attempts |-> snap.failed_attempts_per_ip[i]]
        nodes2 ==
            [m \in (DOMAIN g1.nodes) \cup allIps |->
                IF m \in allIps
                THEN IF m \in DOMAIN g1.nodes
                     THEN [g1.nodes[m] EXCEPT
                              !.anomaly_score = Max(g1.nodes[m].anomaly_score, ipAnomaly(m)),
                              !.metadata = ipMetadata(m)]
                     ELSE [node_type |-> "external_ip",
                           anomaly_score |-> Max(0, ipAnomaly(m)), risk_score |-> 0,
                           metadata |-> ipMetadata(m)]
                ELSE g1.nodes[m]]
        newEdges == {<<snap.node_id, d>> : d \in SeqRange(snap.destination_ips)}
        edges2 ==
            [e \in (DOMAIN g1.edges) \cup newEdges |->
                IF e \in DOMAIN g1.edges THEN g1.edges[e] ELSE "ip_connection"]
    IN [nodes |-> nodes2, edges |-> edges2]

Successors(g, n) == {e[2] : e \in {x \in DOMAIN g.edges : x[1] = n}}

RECURSIVE Pow(_, _)
Pow(b, k) == IF k = 0 THEN 1 ELSE b * Pow(b, k - 1)

\* the risk is multiplied by the decay factor times the depth
PropagatedLinear(risk, depth) == (risk * DecayNum * depth) \div DecayDen

\* risk * decay_factor ** depth
Propagated(risk, depth) == (risk * Pow(DecayNum, depth)) \div Pow(DecayDen, depth)

\* the propagated risk is added to the risk the node has
RECURSIVE TraverseAdding(_, _, _, _, _)
TraverseAdding(g, frontier, visited, risk, depth) ==
    IF frontier = {} THEN g
    ELSE LET g1 == [g EXCEPT !.nodes =
                      [m \in DOMAIN g.nodes |->
                          IF m \in frontier
                          THEN [g.nodes[m] EXCEPT
                                  !.risk_score = g.nodes[m].risk_score +
                                                     Propagated(risk, depth)]
                          ELSE g.nodes[m]]]
             next == (UNION {Successors(g, m) : m \in frontier}) \ visited
         IN TraverseAdding(g1, next, visited \cup next, risk, depth + 1)

\* the breadth-first traversal of propagate_risk from one source, level by
\* level: frontier holds the nodes first reached at this depth
RECURSIVE Traverse(_, _, _, _, _)
Traverse(g, frontier, visited, risk, depth) ==
    IF frontier = {} THEN g
    ELSE LET g1 == [g EXCEPT !.nodes =
                      [m \in DOMAIN g.nodes |->
                          IF m \in frontier
                          THEN [g.nodes[m] EXCEPT
                                  !.risk_score = Max(g.nodes[m].risk_score,
                                                     Propagated(risk, depth))]
                          ELSE g.nodes[m]]]
             next == (UNION {Successors(g, m) : m \in frontier}) \ visited
         IN Traverse(g1, next, visited \cup next, risk, depth + 1)

RECURSIVE PropagateFrom(_, _)
PropagateFrom(g, sources) ==
    IF sources = {} THEN g
    ELSE LET s == CHOOSE x \in sources : TRUE
         IN PropagateFrom(Traverse(g, {s}, {s}, g.nodes[s].anomaly_score, 0),
                          sources \ {s})

\* propagate_risk
PropagateRisk(g) ==
    PropagateFrom(g, {n \in DOMAIN g.nodes : g.nodes[n].anomaly_score > 0})

\* propagate_risk with the sources taken in the given order
RECURSIVE PropagateInOrder(_, _)
PropagateInOrder(g, order) ==
    IF order = <<>> THEN g
    ELSE LET s == Head(order)
         IN PropagateInOrder(Traverse(g, {s}, {s}, g.nodes[s].anomaly_score, 0),
                             Tail(order))

\* the nodes propagate_risk starts from
RiskSources(g) == {n \in DOMAIN g.nodes : g.nodes[n].anomaly_score > 0}

\* the orders in which the nodes of a set can be listed
Orders(S) ==
    {q \in [1..Cardinality(S) -> S] : \A i, j \in 1..Cardinality(S) : q[i] = q[j] => i = j}

(***************************************************************************)
(* GraphEngine.find_highest_risk_path.  NetworkX lists nodes and neighbours *)
(* in insertion order; NodeOrder is that order.                            *)
(***************************************************************************)
NodeOrder == <<"A", "M", "X">>

\* cutoff of all_simple_paths
PathCutoff == 10

NodesInOrder(g) == SelectSeq(NodeOrder, LAMBDA n : n \in DOMAIN g.nodes)

RECURSIVE ConcatAll(_)
ConcatAll(qs) == IF qs = <<>> THEN <<>> ELSE Head(qs) \o ConcatAll(Tail(qs))

\* nx.all_simple_paths(graph, entry, target, cutoff): depth first, the paths
\* that extend path to target with at most cutoff edges
RECURSIVE AllSimplePathsFrom(_, _, _, _)
AllSimplePathsFrom(g, path, target, cutoff) ==
    LET last == path[Len(path)]
        next == SelectSeq(NodesInOrder(g),
                          LAMBDA n : /\ <<last, n>> \in DOMAIN g.edges
                                     /\ n \notin SeqRange(path))
    IN IF last = target THEN <<path>>
       ELSE IF Len(path) - 1 >= cutoff THEN <<>>
       ELSE ConcatAll([i \in 1..Len(next) |->
                          AllSimplePathsFrom(g, Append(path, next[i]), target, cutoff)])

\* entry points: remote servers and external IPs, else the nodes with an
\* anomaly score above 0.5
EntryPoints(g) ==
    LET typed == SelectSeq(NodesInOrder(g),
                   LAMBDA n : g.nodes[n].node_type \in {"remote_server", "external_ip"})
    IN IF typed # <<>> THEN typed
       ELSE SelectSeq(NodesInOrder(g), LAMBDA n : g.nodes[n].anomaly_score > 500)

\* targets: every node with some anomaly
TargetsAnyAnomalous(g) ==
    SelectSeq(NodesInOrder(g), LAMBDA n : g.nodes[n].anomaly_score > 0)

\* targets: machines with an anomaly score above 0.7, else the nodes with
\* some anomaly
Targets(g) ==
    LET machines == SelectSeq(NodesInOrder(g),
                      LAMBDA n : /\ g.nodes[n].node_type = "machine"
                                 /\ g.nodes[n].anomaly_score > 700)
    IN IF machines # <<>> THEN machines
       ELSE SelectSeq(NodesInOrder(g), LAMBDA n : g.nodes[n].anomaly_score > 0)

\* the paths the two loops go through, in their order
CandidatePaths(g) ==
    LET E == EntryPoints(g)
        T == Targets(g)
    IN ConcatAll([i \in 1..Len(E) |->
          ConcatAll([j \in 1..Len(T) |->
              IF E[i] = T[j] THEN <<>>
              ELSE AllSimplePathsFrom(g, <<E[i]>>, T[j], PathCutoff)])])

\* sum of the risk scores of the nodes of a path
RECURSIVE PathScore(_, _)
PathScore(g, path) ==
    IF path = <<>> THEN 0 ELSE g.nodes[Head(path)].risk_score + PathScore(g, Tail(path))

\* a path replaces the best one also when it only equals its score
BetterOrEqual(g, path, best) == PathScore(g, path) >= PathScore(g, best)

\* "score > best_score or (score == best_score and len(path) < len(best_path))"
Better(g, path, best) ==
    \/ PathScore(g, path) > PathScore(g, best)
    \/ PathScore(g, path) = PathScore(g, best) /\ Len(path) < Len(best)

RECURSIVE BestOf(_, _, _)
BestOf(g, paths, best) ==
    IF paths = <<>> THEN best
    ELSE BestOf(g, Tail(paths), IF Better(g, Head(paths), best) THEN Head(paths) ELSE best)

\* find_highest_risk_path: best_path starts as [] with best_score 0
FindHighestRiskPath(g) == BestOf(g, CandidatePaths(g), <<>>)

(***************************************************************************)
(* AlertEngine.process_prediction, as far as the orchestrator sees it.     *)
(***************************************************************************)
ProcessPrediction(n, pred) ==
    IF pred.anomaly_score <= AlertThreshold
    THEN NoAlert
    ELSE [present |-> TRUE, node_id |-> n, anomaly_score |-> pred.anomaly_score]

(***************************************************************************)
(* LogCollector.collect_once, stage by stage (SpecCycle).                  *)
(***************************************************************************)
InitCycle ==
    /\ cpc = "idle"
    /\ fv = "none"
    /\ remoteLogs = <<>>
    /\ prediction = NoPrediction
    /\ alert = NoAlert
    /\ rIdx = 1
    /\ ret = "pending"
    /\ failed = {}
    /\ rOutcome = [r \in SeqRange(Endpoints) |-> "unprocessed"]
    /\ graph = EmptyGraph
    /\ history = <<>>
    /\ alertsFile = <<>>
    /\ hist0 = 0
    /\ alerts0 = 0
    /\ cycleNo = 0
    /\ persisted = <<>>

\* the try of line 351 has no handler
CaughtByInnerOnly(stage) == stage # "metrics"

\* every stage runs inside the try of line 351, most inside a try of their own
Caught(stage) == TRUE

\* the error category the handler of a failed stage routes the failure to
ErrorCategoryOf(stage) ==
    IF stage \in {"validate", "save_log", "save_alert"}
    THEN "warning" ELSE "recoverable"

\* no handler ends the process
TerminatesNever(category) == FALSE

\* only handle_critical_error ends the process (sys.exit)
Terminates(category) == category = "critical"

Handled(stage) == Caught(stage) /\ ~Terminates(ErrorCategoryOf(stage))

\* handlers that give the cycle up also when the prediction fails
OnStageFailureStrictPredict(stage) ==
    IF stage \in {"metrics", "process", "validate", "predict"}
    THEN "return_none" ELSE "continue"

\* handlers that give the cycle up also when a remote snapshot fails
OnStageFailureStrictRemote(stage) ==
    IF stage \in {"metrics", "process", "validate", "remote_process"}
    THEN "return_none" ELSE "continue"

\* what the handler of a failed stage does: "return None", or carry on with
\* a fallback ("remote_process" is one iteration of the Step 10 loop)
OnStageFailure(stage) ==
    IF stage \in {"metrics", "process", "validate"}
    THEN "return_none" ELSE "continue"

Continues(stage) == Handled(stage) /\ OnStageFailure(stage) = "continue"

\* a failed stage ends the cycle: its handler returns None, or no handler
\* absorbs the failure
Leave(stage) ==
    /\ cpc' = IF ~Caught(stage) THEN "escaped"
              ELSE IF Terminates(ErrorCategoryOf(stage)) THEN "terminated"
              ELSE "idle"
    /\ ret' = IF Handled(stage) THEN "None" ELSE ret
    /\ failed' = failed \cup {stage}
    /\ UNCHANGED <<fv, remoteLogs, prediction, alert, rIdx, rOutcome,
                   graph, history, alertsFile, hist0, alerts0, cycleNo, persisted>>

\* collect_once calls followed in one behaviour
MaxCycles == 2

\* a record written to a file by the cycle with the given number
Written(file, node, cycle) == [file |-> file, node_id |-> node, cycle |-> cycle]

CycleBegin ==
    /\ cpc = "idle"
    /\ Len(history) + Len(alertsFile) <= MaxStored
    /\ cycleNo < MaxCycles
    /\ cycleNo' = cycleNo + 1
    /\ cpc' = "metrics"
    /\ fv' = "none"
    /\ remoteLogs' = <<>>
    /\ prediction' = NoPrediction
    /\ alert' = NoAlert
    /\ rIdx' = 1
    /\ ret' = "pending"
    /\ failed' = {}
    /\ rOutcome' = [r \in SeqRange(Endpoints) |-> "unprocessed"]
    /\ hist0' = Len(history)
    /\ alerts0' = Len(alertsFile)
    /\ UNCHANGED <<graph, history, alertsFile, persisted>>
    /\ UNCHANGED notCycle

\* Step 1: _collect_metrics (a metric that cannot be collected defaults to ""
\* inside it; the stage fails when _collect_metrics itself raises)
StageMetrics ==
    /\ cpc = "metrics"
    /\ \/ /\ cpc' = "remote_fetch"
          /\ UNCHANGED <<fv, remoteLogs, prediction, alert, rIdx, ret, failed, rOutcome,
                         graph, history, alertsFile, hist0, alerts0, cycleNo, persisted>>
       \/ Leave("metrics")
    /\ UNCHANGED notCycle

\* the endpoints that answered, last endpoint first
FetchResultsReversed ==
    {[i \in 1..Len(q) |-> q[Len(q) + 1 - i]] :
        q \in {SelectSeq(Endpoints, LAMBDA e : e \in S) : S \in SUBSET SeqRange(Endpoints)}}

\* the lists collect_from_all can return: the endpoints that answered, in order
FetchResults ==
    {SelectSeq(Endpoints, LAMBDA e : e \in S) : S \in SUBSET SeqRange(Endpoints)}

\* Step 2: remote_log_collector.collect_from_all()
StageRemoteFetch ==
    /\ cpc = "remote_fetch"
    /\ \/ /\ \E logs \in FetchResults : remoteLogs' = logs
          /\ cpc' = "process"
          /\ UNCHANGED <<fv, prediction, alert, rIdx, ret, failed, rOutcome,
                         graph, history, alertsFile, hist0, alerts0, cycleNo, persisted>>
       \/ IF Continues("remote_fetch")
          THEN /\ remoteLogs' = <<>>
               /\ failed' = failed \cup {"remote_fetch"}
               /\ cpc' = "process"
               /\ UNCHANGED <<fv, prediction, alert, rIdx, ret, rOutcome,
                              graph, history, alertsFile, hist0, alerts0, cycleNo, persisted>>
          ELSE Leave("remote_fetch")
    /\ UNCHANGED notCycle

\* Step 3: data_processor.process(raw_data)
StageProcess ==
    /\ cpc = "process"
    /\ \/ /\ cpc' = "validate"
          /\ fv' = LocalNode
          /\ UNCHANGED <<remoteLogs, prediction, alert, rIdx, ret, failed, rOutcome,
                         graph, history, alertsFile, hist0, alerts0, cycleNo, persisted>>
       \/ Leave("process")
    /\ UNCHANGED notCycle

\* Step 4: data_processor.validate(feature_vector)
StageValidate ==
    /\ cpc = "validate"
    /\ \/ /\ cpc' = "predict"
          /\ UNCHANGED <<fv, remoteLogs, prediction, alert, rIdx, ret, failed, rOutcome,
                         graph, history, alertsFile, hist0, alerts0, cycleNo, persisted>>
       \/ Leave("validate")
    /\ UNCHANGED notCycle

\* Step 5: model_interface.predict(feature_vector); without a prediction
\* Step 6 is skipped
StagePredict ==
    /\ cpc = "predict"
    /\ \/ /\ \E s \in Scores : prediction' = [ok |-> TRUE, anomaly_score |-> s]
          /\ cpc' = "alert"
          /\ UNCHANGED <<fv, remoteLogs, alert, rIdx, ret, failed, rOutcome,
                         graph, history, alertsFile, hist0, alerts0, cycleNo, persisted>>
       \/ IF Continues("predict")
          THEN /\ prediction' = NoPrediction
               /\ failed' = failed \cup {"predict"}
               /\ cpc' = "graph"
               /\ UNCHANGED <<fv, remoteLogs, alert, rIdx, ret, rOutcome,
                              graph, history, alertsFile, hist0, alerts0, cycleNo, persisted>>
          ELSE Leave("predict")
    /\ UNCHANGED notCycle

\* Step 6: alert_engine.process_prediction(...)
StageAlert ==
    /\ cpc = "alert"
    /\ \/ /\ alert' = ProcessPrediction(fv, prediction)
          /\ cpc' = "graph"
          /\ UNCHANGED <<fv, remoteLogs, prediction, rIdx, ret, failed, rOutcome,
                         graph, history, alertsFile, hist0, alerts0, cycleNo, persisted>>
       \/ IF Continues("alert")
          THEN /\ alert' = NoAlert
               /\ failed' = failed \cup {"alert"}
               /\ cpc' = "graph"
               /\ UNCHANGED <<fv, remoteLogs, prediction, rIdx, ret, rOutcome,
                              graph, history, alertsFile, hist0, alerts0, cycleNo, persisted>>
          ELSE Leave("alert")
    /\ UNCHANGED notCycle

\* add_node is called also for a node the graph already has
SetScoreReAdding(g, n, type, pred) ==
    UpdateAnomalyScore(AddNode(g, n, type), n, pred.anomaly_score)

\* the node of a snapshot gets the prediction's score (lines 441-451, 527-536)
SetScore(g, n, type, pred) ==
    UpdateAnomalyScore(IF HasNode(g, n) THEN g ELSE AddNode(g, n, type),
                       n, pred.anomaly_score)

\* Step 7: update the attack graph.  add_node / update_anomaly_score may
\* raise (then nothing of the step happens), and so may propagate_risk
\* (then the IP data is ingested and no risk is propagated).
StageGraph ==
    /\ cpc = "graph"
    /\ LET g1 == IF prediction.ok
                 THEN SetScore(graph, fv, "machine", prediction) ELSE graph
           g2 == AddIpNodesFromFeatureVector(g1, SnapshotOf(fv))
       IN \/ /\ graph' = PropagateRisk(g2)
             /\ cpc' = "save_log"
             /\ UNCHANGED <<fv, remoteLogs, prediction, alert, rIdx, ret, failed,
                            rOutcome, history, alertsFile, hist0, alerts0, cycleNo, persisted>>
          \/ IF Continues("graph")
             THEN /\ \/ prediction.ok /\ graph' = graph
                     \/ graph' = g2
                  /\ failed' = failed \cup {"graph"}
                  /\ cpc' = "save_log"
                  /\ UNCHANGED <<fv, remoteLogs, prediction, alert, rIdx, ret,
                                 rOutcome, history, alertsFile, hist0, alerts0, cycleNo, persisted>>
             ELSE Leave("graph")
    /\ UNCHANGED notCycle

\* Step 8: storage_manager.save_log(feature_vector); Step 9 runs only for
\* an alert
StageSaveLog ==
    /\ cpc = "save_log"
    /\ \/ /\ history' = Append(history, fv)
          /\ persisted' = Append(persisted, Written("history", fv, cycleNo))
          /\ cpc' = IF alert.present THEN "save_alert" ELSE "remote_process"
          /\ UNCHANGED <<fv, remoteLogs, prediction, alert, rIdx, ret, failed, rOutcome,
                         graph, alertsFile, hist0, alerts0, cycleNo>>
       \/ IF Continues("save_log")
          THEN /\ failed' = failed \cup {"save_log"}
               /\ cpc' = IF alert.present THEN "save_alert" ELSE "remote_process"
               /\ UNCHANGED <<fv, remoteLogs, prediction, alert, rIdx, ret, rOutcome,
                              graph, history, alertsFile, hist0, alerts0, cycleNo, persisted>>
          ELSE Leave("save_log")
    /\ UNCHANGED notCycle

\* Step 9: storage_manager.save_alert(alert)
StageSaveAlert ==
    /\ cpc = "save_alert"
    /\ \/ /\ alertsFile' = Append(alertsFile, alert)
          /\ persisted' = Append(persisted, Written("alerts", alert.node_id, cycleNo))
          /\ cpc' = "remote_process"
          /\ UNCHANGED <<fv, remoteLogs, prediction, alert, rIdx, ret, failed, rOutcome,
                         graph, history, hist0, alerts0, cycleNo>>
       \/ IF Continues("save_alert")
          THEN /\ failed' = failed \cup {"save_alert"}
               /\ cpc' = "remote_process"
               /\ UNCHANGED <<fv, remoteLogs, prediction, alert, rIdx, ret, rOutcome,
                              graph, history, alertsFile, hist0, alerts0, cycleNo, persisted>>
          ELSE Leave("save_alert")
    /\ UNCHANGED notCycle

\* the points at which the processing of one remote snapshot can fail
RemoteFailPoints == {"construct", "predict", "alert", "graph", "save_log", "save_alert"}

\* Step 10, one iteration: the remote snapshot at rIdx goes through
\* construction, prediction, alert generation, the graph update and the
\* two saves; f is where that fails ("ok": nowhere).  A failure of
\* construction, prediction or the graph update raises and ends the
\* iteration; process_prediction and the saves report their failure by
\* their result (None, False) and the iteration goes on.
StageRemoteOne ==
    /\ cpc = "remote_process"
    /\ rIdx <= Len(remoteLogs)
    /\ \E f \in RemoteFailPoints \cup {"ok"} :
         LET r      == remoteLogs[rIdx]
             pred   == [ok |-> TRUE, anomaly_score |-> RemoteScore(r)]
             raises == f \in {"construct", "predict", "graph"}
             ralert == IF f = "alert" THEN NoAlert ELSE ProcessPrediction(r, pred)
             g2     == AddIpNodesFromFeatureVector(
                           SetScore(graph, r, "remote_server", pred), SnapshotOf(r))
         IN /\ f = "alert" => pred.anomaly_score > AlertThreshold
            /\ f = "save_alert" => ralert.present
            /\ IF raises /\ ~Continues("remote_process")
               THEN Leave("remote_process")
               ELSE /\ rOutcome' = [rOutcome EXCEPT ![r] = f]
                    /\ graph' = IF raises THEN graph ELSE g2
                    /\ history' = IF raises \/ f = "save_log"
                                  THEN history ELSE Append(history, r)
                    /\ alertsFile' = IF raises \/ f = "save_alert" \/ ~ralert.present
                                     THEN alertsFile ELSE Append(alertsFile, ralert)
                    /\ persisted' =
                          persisted
                          \o (IF raises \/ f = "save_log"
                              THEN <<>> ELSE <<Written("history", r, cycleNo)>>)
                          \o (IF raises \/ f = "save_alert" \/ ~ralert.present
                              THEN <<>> ELSE <<Written("alerts", r, cycleNo)>>)
                    /\ rIdx' = rIdx + 1
                    /\ UNCHANGED <<cpc, fv, remoteLogs, prediction, alert, ret, failed,
                                   hist0, alerts0, cycleNo>>
    /\ UNCHANGED notCycle

\* "return feature_vector" after the Step 10 loop
CycleReturn ==
    /\ cpc = "remote_process"
    /\ rIdx > Len(remoteLogs)
    /\ cpc' = "idle"
    /\ ret' = "snapshot"
    /\ UNCHANGED <<fv, remoteLogs, prediction, alert, rIdx, failed, rOutcome,
                   graph, history, alertsFile, hist0, alerts0, cycleNo, persisted>>
    /\ UNCHANGED notCycle

(***************************************************************************)
(* StorageManager (SpecStore).  A file is absent, holds a JSON array       *)
(* (data: its entries), holds valid JSON that is not an array ("object"),  *)
(* or holds text that is not valid JSON ("corrupt": empty or cut short).   *)
(***************************************************************************)
\* save calls in one behaviour
MaxSaves == 2

\* max_retries, the default of save_log and save_alert
MaxRetries == 3

FileNames == {"history", "alerts"}

Absent == [state |-> "absent", data |-> <<>>]

Corrupt == [state |-> "corrupt", data |-> <<>>]

NotAList == [state |-> "object", data |-> <<>>]

Array(d) == [state |-> "array", data |-> d]

\* what the log directory can hold when the manager is constructed; entry 0
\* is an entry of an earlier run
InitialFiles == {Absent, Array(<<>>), Array(<<0>>), Corrupt, NotAList}

InitStore ==
    /\ files = [k \in FileNames |-> Absent]
    /\ base = [k \in FileNames |-> Absent]
    /\ spc = "new"
    /\ sfile = "history"
    /\ sentry = 0
    /\ sattempt = 0
    /\ slept = <<>>
    /\ sdata = <<>>
    /\ sresult = "none"
    /\ saved = [k \in FileNames |-> <<>>]
    /\ unsaved = [k \in FileNames |-> 0]
    /\ nCalls = 0
    /\ sstart = Absent
    /\ writes = 0
    /\ sfaults = {}

\* __init__: the directory is created if missing; files of an earlier run
\* stay as they are
StorageManagerInit ==
    /\ spc = "new"
    /\ \E h \in InitialFiles, a \in InitialFiles :
          files' = [k \in FileNames |-> IF k = "history" THEN h ELSE a]
    /\ base' = files'
    /\ spc' = "idle"
    /\ UNCHANGED <<sfile, sentry, sattempt, slept, sdata, sresult, saved, unsaved, nCalls,
                   sstart, writes, sfaults>>
    /\ UNCHANGED notStore

\* the save ends without True: "False", or "raised" when the exception
\* leaves the call
SaveGivesUp(result) ==
    /\ spc' = "idle"
    /\ sresult' = result
    /\ unsaved' = [unsaved EXCEPT ![sfile'] = @ + 1]

\* backoff_time = 0.1 * (2 ** attempt) (lines 150, 218), in tenths of a
\* second
BackoffTime(attempt) == 2 ^ attempt

\* the handler of the retry loop (lines 135-151, 211-219): return False on
\* the last attempt, else back off and try again
AttemptFails(fault) ==
    /\ sfile' = sfile
    /\ sfaults' = sfaults \cup {fault}
    /\ IF sattempt = MaxRetries - 1
       THEN /\ SaveGivesUp("False")
            /\ UNCHANGED <<sattempt, slept>>
       ELSE /\ slept' = Append(slept, BackoffTime(sattempt))
            /\ sattempt' = sattempt + 1
            /\ spc' = "read"
            /\ UNCHANGED <<sresult, unsaved>>
    /\ UNCHANGED <<sentry, sdata, saved>>

\* a save call begins: the entry is converted to a dict, then the retry
\* loop starts
SaveCall(file, convertFailure) ==
    /\ spc = "idle"
    /\ nCalls < MaxSaves
    /\ nCalls' = nCalls + 1
    /\ sfile' = file
    /\ sentry' = nCalls + 1
    /\ sattempt' = 0
    /\ slept' = <<>>
    /\ sdata' = <<>>
    /\ sstart' = files[file]
    /\ writes' = 0
    /\ \/ spc' = "read" /\ sfaults' = {} /\ UNCHANGED <<sresult, unsaved>>
       \/ SaveGivesUp(convertFailure) /\ sfaults' = {"convert"}
    /\ UNCHANGED <<files, base, saved>>

\* save_log: to_dict() failing is caught and the call returns False
SaveLog ==
    /\ SaveCall("history", "False")
    /\ UNCHANGED notStore

\* save_alert: the dict is built outside any try
SaveAlert ==
    /\ SaveCall("alerts", "raised")
    /\ UNCHANGED notStore

\* only save_log catches JSONDecodeError around the read (lines 101-115);
\* in save_alert it fails the attempt
ReadsCorruptAsEmpty(file) == file = "history"

\* the attempt reads the file (data = [] when there is none, when it is
\* not a list, and in save_log when it is corrupt) and appends the entry
ReadExisting ==
    /\ spc = "read"
    /\ LET f == files[sfile]
       IN \/ /\ f.state = "corrupt" => ReadsCorruptAsEmpty(sfile)
             /\ sdata' = Append(IF f.state = "array" THEN f.data ELSE <<>>, sentry)
             /\ spc' = "write"
             /\ UNCHANGED <<sfile, sentry, sattempt, slept, sresult, saved, unsaved, sfaults>>
          \/ /\ f.state = "corrupt" /\ ~ReadsCorruptAsEmpty(sfile)
             /\ AttemptFails("decode")
          \/ /\ f.state # "absent"
             /\ AttemptFails("read")
    /\ UNCHANGED <<files, base, nCalls, sstart, writes>>
    /\ UNCHANGED notStore

\* _write_to_file opens with mode 'w', which empties the file, then dumps:
\* a dump that fails leaves the file empty or cut short
FailedDump(f) == Corrupt

\* _write_to_file(data, filepath): it succeeds, open() fails (the file is
\* as before), or the dump fails
WriteToFile ==
    /\ spc = "write"
    /\ \/ /\ files' = [files EXCEPT ![sfile] = Array(sdata)]
          /\ spc' = "validate"
          /\ UNCHANGED <<sfile, sentry, sattempt, slept, sdata, sresult, saved, unsaved, sfaults>>
       \/ /\ UNCHANGED files
          /\ AttemptFails("open")
       \/ /\ files' = [files EXCEPT ![sfile] = FailedDump(files[sfile])]
          /\ AttemptFails("dump")
    /\ writes' = writes + 1
    /\ UNCHANGED <<base, nCalls, sstart>>
    /\ UNCHANGED notStore

\* ensure_valid_json(filepath) after the write: True and the save returns
\* True, or False (the file cannot be read back) and the attempt fails
EnsureValidJson ==
    /\ spc = "validate"
    /\ \/ /\ spc' = "idle"
          /\ sresult' = "True"
          /\ saved' = [saved EXCEPT ![sfile] = Append(@, sentry)]
          /\ UNCHANGED <<sfile, sentry, sattempt, slept, sdata, unsaved, sfaults>>
       \/ AttemptFails("validate")
    /\ UNCHANGED <<files, base, nCalls, sstart, writes>>
    /\ UNCHANGED notStore

(***************************************************************************)
(* AlertEngine (SpecAlert).  Scores and thresholds are in thousandths.     *)
(***************************************************************************)
\* thresholds handed to the constructor; it accepts those in [0, 1]
Thresholds == {-100, 0, 500, 700, 1000, 1100}

\* anomaly scores of the predictions, in [0, 1]
AlertScores == {0, 499, 500, 501, 699, 700, 701, 800, 900, 1000}

\* the order in which the per-IP dictionaries of a snapshot list their keys
IpOrder == <<"ip1", "ip2">>

\* the snapshots handed to process_prediction: a quiet one, one with
\* abnormal metrics, one with abnormal per-IP counts
AlertSnapshots ==
    { [node_id |-> "local", cpu_usage |-> 10, memory_usage |-> 20, failed_logins |-> 0,
       network_connections |-> 5, process_count |-> 50, unique_ip_count |-> 1,
       failed_attempts_per_ip |-> [i \in IpIds |-> 0],
       connection_count_per_ip |-> [i \in IpIds |-> 0]],
      [node_id |-> "local", cpu_usage |-> 95, memory_usage |-> 85, failed_logins |-> 11,
       network_connections |-> 100, process_count |-> 201, unique_ip_count |-> 2,
       failed_attempts_per_ip |-> [i \in IpIds |-> IF i = "ip2" THEN 6 ELSE 5],
       connection_count_per_ip |-> [i \in IpIds |-> IF i = "ip1" THEN 51 ELSE 0]],
      [node_id |-> "r1", cpu_usage |-> 80, memory_usage |-> 86, failed_logins |-> 10,
       network_connections |-> 101, process_count |-> 200, unique_ip_count |-> 51,
       failed_attempts_per_ip |-> [i \in IpIds |-> 6],
       connection_count_per_ip |-> [i \in IpIds |-> 50]] }

\* the steps of process_prediction that have a handler of their own
DerivationSteps == {"uuid", "timestamp", "reason", "severity", "ips"}

AlertFaults == SUBSET (DerivationSteps \cup {"construct"})

\* determine_suspected_reason: the reasons in the order they are checked
\* (the code joins them with ", ")
DetermineSuspectedReason(snap) ==
    LET reasons ==
            (IF snap.cpu_usage > 80 THEN <<"high CPU usage">> ELSE <<>>)
         \o (IF snap.memory_usage > 85 THEN <<"high memory usage">> ELSE <<>>)
         \o (IF snap.failed_logins > 10 THEN <<"multiple failed logins">> ELSE <<>>)
         \o (IF snap.network_connections > 100
             THEN <<"excessive network connections">> ELSE <<>>)
         \o (IF snap.process_count > 200 THEN <<"high process count">> ELSE <<>>)
         \o (IF snap.unique_ip_count > 50
             THEN <<"connections to many unique IPs">> ELSE <<>>)
    IN IF reasons = <<>> THEN <<"anomalous pattern detected">> ELSE reasons

\* a dictionary IP -> count as the sequence of its items (a dict lists its
\* keys in the order they were inserted)
Items(counts) == [i \in 1..Len(IpOrder) |-> <<IpOrder[i], counts[IpOrder[i]]>>]

\* the second loop appends without looking at what is listed already
IdentifySuspiciousIpsNoDedupe(attempts, conns) ==
    LET byAttempts == SelectSeq(attempts, LAMBDA item : item[2] > 5)
        byConnections == SelectSeq(conns, LAMBDA item : item[2] > 50)
    IN [i \in 1..Len(byAttempts) |-> byAttempts[i][1]]
       \o [i \in 1..Len(byConnections) |-> byConnections[i][1]]

\* the two loops of identify_suspicious_ips over failed_attempts_per_ip.items()
\* and connection_count_per_ip.items()
IdentifySuspiciousIpsOf(attempts, conns) ==
    LET byAttempts == SelectSeq(attempts, LAMBDA item : item[2] > 5)
        suspicious == [i \in 1..Len(byAttempts) |-> byAttempts[i][1]]
        byConnections ==
            SelectSeq(conns, LAMBDA item : /\ item[2] > 50
                                           /\ item[1] \notin SeqRange(suspicious))
    IN suspicious \o [i \in 1..Len(byConnections) |-> byConnections[i][1]]

\* identify_suspicious_ips: first the IPs with more than 5 failed attempts,
\* then those with more than 50 connections not yet listed
IdentifySuspiciousIps(snap) ==
    IdentifySuspiciousIpsOf(Items(snap.failed_attempts_per_ip),
                            Items(snap.connection_count_per_ip))

\* medium begins above the default threshold, at 0.75
CalculateSeverityMediumLate(score) ==
    IF score >= 900 THEN "critical"
    ELSE IF score >= 800 THEN "high"
    ELSE IF score >= 750 THEN "medium"
    ELSE "low"

\* every bound is open
CalculateSeverityOpen(score) ==
    IF score > 900 THEN "critical"
    ELSE IF score > 800 THEN "high"
    ELSE IF score > 700 THEN "medium"
    ELSE "low"

\* _calculate_severity
CalculateSeverity(score) ==
    IF score >= 900 THEN "critical"
    ELSE IF score >= 800 THEN "high"
    ELSE IF score >= 700 THEN "medium"
    ELSE "low"

\* "no alert" (None), in the shape of an alert
NoAlertRecord ==
    [present |-> FALSE, alert_id |-> "", node_id |-> "", timestamp |-> "",
     anomaly_score |-> 0, suspected_reason |-> <<>>, severity |-> "",
     suspicious_ips |-> <<>>, feature_vector |-> "none"]

\* an alert also for a score equal to the threshold
ExceedsOrEquals(score, t) == score >= t

\* "prediction.anomaly_score <= self.threshold" returns None
Exceeds(score, t) == ~(score <= t)

\* a failed derivation abandons the alert
DerivationFailureGivesUp(faults) == faults # {}

\* only the failure of the Alert constructor makes process_prediction return
\* None once the threshold is exceeded (lines 138-144); every derivation
\* has a fallback
GivesUp(faults) == "construct" \in faults

\* process_prediction(node_id, prediction, feature_vector) of an engine with
\* threshold t; faults: the steps that raise in this call
ProcessPredictionOf(t, node_id, score, snap, faults) ==
    IF ~Exceeds(score, t) THEN NoAlertRecord
    ELSE IF GivesUp(faults) THEN NoAlertRecord
    ELSE [present |-> TRUE,
          alert_id |-> IF "uuid" \in faults THEN "alert-time" ELSE "uuid4",
          node_id |-> node_id,
          timestamp |-> IF "timestamp" \in faults THEN "now" ELSE "utcnow",
          anomaly_score |-> score,
          suspected_reason |-> IF "reason" \in faults
                               THEN <<"anomalous pattern detected">>
                               ELSE DetermineSuspectedReason(snap),
          severity |-> IF "severity" \in faults THEN "medium"
                       ELSE CalculateSeverity(score),
          suspicious_ips |-> IF "ips" \in faults THEN <<>>
                             ELSE IdentifySuspiciousIps(snap),
          feature_vector |-> snap]

NoCall == [node_id |-> "", score |-> 0, snap |-> "none", faults |-> {}]

InitAlert ==
    /\ apc = "new"
    /\ threshold = 0
    /\ aIn = NoCall
    /\ aOut = NoAlertRecord
    /\ sevIn = 0
    /\ sevOut = ""
    /\ ipIn = [failed |-> <<>>, conns |-> <<>>]
    /\ ipOut = <<>>

\* AlertEngine(threshold): ValueError unless 0 <= threshold <= 1
AlertEngineInit ==
    /\ apc = "new"
    /\ \E t \in Thresholds :
          IF 0 <= t /\ t <= 1000
          THEN apc' = "ready" /\ threshold' = t
          ELSE apc' = "rejected" /\ threshold' = threshold
    /\ UNCHANGED <<aIn, aOut, sevIn, sevOut, ipIn, ipOut>>
    /\ UNCHANGED notAlert

\* process_prediction is called on the engine; its result depends on the
\* arguments and the threshold only, so one call per engine is followed
ProcessPredictionCall ==
    /\ apc = "ready"
    /\ apc' = "called"
    /\ \E n \in {LocalNode, "r1"}, sc \in AlertScores, snap \in AlertSnapshots,
          faults \in AlertFaults :
          /\ aIn' = [node_id |-> n, score |-> sc, snap |-> snap, faults |-> faults]
          /\ aOut' = ProcessPredictionOf(threshold, n, sc, snap, faults)
    /\ UNCHANGED <<threshold, sevIn, sevOut, ipIn, ipOut>>
    /\ UNCHANGED notAlert

\* the scores _calculate_severity is called with, also outside [0, 1]
SeverityScores == {-100, 0, 500, 699, 700, 701, 799, 800, 801, 899, 900, 901, 1000, 1500}

\* _calculate_severity called on its own
CalculateSeverityCall ==
    /\ apc = "ready"
    /\ apc' = "severity"
    /\ \E sc \in SeverityScores :
          /\ sevIn' = sc
          /\ sevOut' = CalculateSeverity(sc)
    /\ UNCHANGED <<threshold, aIn, aOut, ipIn, ipOut>>
    /\ UNCHANGED notAlert

\* the dictionaries IP -> count of up to two IPs, in either order of
\* insertion, with the counts drawn from cs
CountItems(cs) ==
    {<<>>}
    \cup {<<<<i, c>>>> : i \in IpIds, c \in cs}
    \cup {items \in {<<<<i, c>>, <<j, e>>>> : i \in IpIds, j \in IpIds, c \in cs, e \in cs} :
             items[1][1] # items[2][1]}

\* identify_suspicious_ips called on its own
IdentifySuspiciousIpsCall ==
    /\ apc = "ready"
    /\ apc' = "ips"
    /\ \E attempts \in CountItems({5, 6}), conns \in CountItems({50, 51}) :
          /\ ipIn' = [failed |-> attempts, conns |-> conns]
          /\ ipOut' = IdentifySuspiciousIpsOf(attempts, conns)
    /\ UNCHANGED <<threshold, aIn, aOut, sevIn, sevOut>>
    /\ UNCHANGED notAlert

(***************************************************************************)
(* GraphEngine called directly (SpecGraph): a graph over up to three nodes *)
(* is given, then one operation is applied to it.                          *)
(***************************************************************************)
NODE_TYPES == {"machine", "process", "service", "remote_server", "external_ip"}

EDGE_TYPES == {"network_connection", "process_spawn", "service_access", "ip_connection"}

GraphNodes == SeqRange(NodeOrder)

\* the types, anomaly scores and earlier risk scores of the given graphs
TypeOptions(n) ==
    CASE n = "A" -> {"remote_server"}
      [] n = "M" -> {"machine"}
      [] OTHER -> {"external_ip", "process"}

AnomalyOptions(n) ==
    CASE n = "A" -> {0, 900}
      [] n = "M" -> {0, 500, 900}
      [] OTHER -> {0, 500, 900}

EarlierRisk == 700

\* a graph the operations of the engine can have built: nodes S with the
\* given types and anomaly scores, node hot (if any) with a risk score
\* left by an earlier propagation, edges E
GivenGraph(S, types, anomalies, hot, E) ==
    [nodes |-> [n \in S |->
                  [node_type |-> types[n], anomaly_score |-> anomalies[n],
                   risk_score |-> IF n = hot THEN EarlierRisk ELSE 0,
                   metadata |-> IF n = "M" THEN [owner |-> "ops"] ELSE EmptyMetadata]],
     edges |-> [e \in E |-> "network_connection"]]

NoOp == [op |-> "none", node |-> "", target |-> "", type |-> "",
         attrs |-> NoAttributes, score |-> 0, error |-> "none"]

InitGraph ==
    /\ gpc = "new"
    /\ g0 = EmptyGraph
    /\ gOp = NoOp
    /\ bestPath = <<>>
    /\ exports = <<>>

GraphGiven ==
    /\ gpc = "new"
    /\ \E S \in SUBSET GraphNodes :
         \E types \in [S -> UNION {TypeOptions(n) : n \in S}],
            anomalies \in [S -> UNION {AnomalyOptions(n) : n \in S}],
            hot \in S \cup {"none"},
            E \in SUBSET {e \in S \X S : e[1] # e[2]} :
            /\ \A n \in S : types[n] \in TypeOptions(n) /\ anomalies[n] \in AnomalyOptions(n)
            /\ graph' = GivenGraph(S, types, anomalies, hot, E)
    /\ g0' = graph'
    /\ gpc' = "built"
    /\ UNCHANGED <<gOp, bestPath, exports>>
    /\ UNCHANGED notGraph

\* propagate_risk(); the order in which graph.nodes lists the sources is
\* the order the nodes were inserted in, any order here
PropagateRiskCall ==
    /\ gpc = "built"
    /\ \E order \in Orders(RiskSources(graph)) :
          graph' = PropagateInOrder(graph, order)
    /\ g0' = graph
    /\ gOp' = [NoOp EXCEPT !.op = "propagate_risk"]
    /\ gpc' = "propagated"
    /\ UNCHANGED <<bestPath, exports>>
    /\ UNCHANGED notGraph

\* find_highest_risk_path(), before or after a propagation or an export
FindHighestRiskPathCall ==
    /\ gpc \in {"built", "propagated", "exported"}
    /\ bestPath' = FindHighestRiskPath(graph)
    /\ gOp' = [NoOp EXCEPT !.op = "find_highest_risk_path"]
    /\ gpc' = "searched"
    /\ g0' = graph
    /\ UNCHANGED <<graph, exports>>
    /\ UNCHANGED notGraph

\* exports made in one behaviour
MaxExports == 2

\* graph.edges(data=True): the edges by source, then by target, in the order
\* of the nodes
EdgesInOrder(g) ==
    ConcatAll([i \in 1..Len(NodesInOrder(g)) |->
                  LET source == NodesInOrder(g)[i]
                      targets == SelectSeq(NodesInOrder(g),
                                           LAMBDA n : <<source, n>> \in DOMAIN g.edges)
                  IN [j \in 1..Len(targets) |-> <<source, targets[j]>>]])

\* edge_count is taken from the node list
ExportJsonNodeCounts(g, now) ==
    [nodes |-> NodesInOrder(g), edges |-> EdgesInOrder(g),
     metadata |-> [generated_at |-> now, node_count |-> Len(NodesInOrder(g)),
                   edge_count |-> Len(NodesInOrder(g))]]

\* export_json() at time now: the node and edge lists (a node by its id,
\* an edge by its ends; their attributes are read from the graph), and the
\* metadata with the lengths of the two lists
ExportJson(g, now) ==
    LET nodes == [i \in 1..Len(NodesInOrder(g)) |->
                     LET n == NodesInOrder(g)[i]
                     IN [id |-> n, type |-> g.nodes[n].node_type,
                         anomaly_score |-> g.nodes[n].anomaly_score,
                         risk_score |-> g.nodes[n].risk_score,
                         metadata |-> g.nodes[n].metadata]]
        edges == [i \in 1..Len(EdgesInOrder(g)) |->
                     LET e == EdgesInOrder(g)[i]
                     IN [source |-> e[1], target |-> e[2], type |-> g.edges[e]]]
    IN [nodes |-> nodes, edges |-> edges,
        metadata |-> [generated_at |-> now, node_count |-> Len(nodes),
                      edge_count |-> Len(edges)]]

\* export_json(), on the graph as built or after a search or an export;
\* the clock has moved on since the last export
ExportJsonCall ==
    /\ gpc \in {"built", "searched", "exported"}
    /\ Len(exports) < MaxExports
    /\ exports' = Append(exports, ExportJson(graph, Len(exports) + 1))
    /\ gOp' = [NoOp EXCEPT !.op = "export_json"]
    /\ gpc' = "exported"
    /\ g0' = graph
    /\ UNCHANGED <<graph, bestPath>>
    /\ UNCHANGED notGraph

\* the attribute dictionaries handed to add_node
AttrChoices ==
    {NoAttributes, [k \in {"risk_score"} |-> 300], [k \in {"anomaly_score"} |-> 300]}

\* add_node: ValueError before anything is written when the type is unknown
AddNodeChecked(g, n, type, attrs) ==
    IF type \notin NODE_TYPES THEN g ELSE AddNodeWith(g, n, type, attrs)

\* add_node(node_id, node_type, attributes)
AddNodeCall ==
    /\ gpc = "built"
    /\ \E n \in GraphNodes, type \in {"service", "router"}, attrs \in AttrChoices :
          /\ graph' = AddNodeChecked(graph, n, type, attrs)
          /\ gOp' = [NoOp EXCEPT !.op = "add_node", !.node = n, !.type = type,
                                 !.attrs = attrs,
                                 !.error = IF type \notin NODE_TYPES
                                           THEN "ValueError" ELSE "none"]
    /\ g0' = graph
    /\ gpc' = "mutated"
    /\ UNCHANGED <<bestPath, exports>>
    /\ UNCHANGED notGraph

\* the edge is written before its type is validated
AddEdgeThenValidate(g, source, target, type) == AddEdge(g, source, target, type)

\* add_edge: ValueError before anything is written when the type is unknown
AddEdgeChecked(g, source, target, type) ==
    IF type \notin EDGE_TYPES THEN g ELSE AddEdge(g, source, target, type)

\* add_edge(source, target, edge_type)
AddEdgeCall ==
    /\ gpc = "built"
    /\ \E source \in GraphNodes, target \in GraphNodes, type \in {"process_spawn", "tunnel"} :
          /\ source # target
          /\ graph' = AddEdgeChecked(graph, source, target, type)
          /\ gOp' = [NoOp EXCEPT !.op = "add_edge", !.node = source, !.target = target,
                                 !.type = type,
                                 !.error = IF type \notin EDGE_TYPES
                                           THEN "ValueError" ELSE "none"]
    /\ g0' = graph
    /\ gpc' = "mutated"
    /\ UNCHANGED <<bestPath, exports>>
    /\ UNCHANGED notGraph

\* update_anomaly_score: KeyError when the node is not in the graph
UpdateAnomalyScoreChecked(g, n, score) ==
    IF ~HasNode(g, n) THEN g ELSE UpdateAnomalyScore(g, n, score)

\* update_anomaly_score(node_id, score)
UpdateAnomalyScoreCall ==
    /\ gpc = "built"
    /\ \E n \in GraphNodes :
          /\ graph' = UpdateAnomalyScoreChecked(graph, n, 400)
          /\ gOp' = [NoOp EXCEPT !.op = "update_anomaly_score", !.node = n, !.score = 400,
                                 !.error = IF ~HasNode(graph, n) THEN "KeyError" ELSE "none"]
    /\ g0' = graph
    /\ gpc' = "mutated"
    /\ UNCHANGED <<bestPath, exports>>
    /\ UNCHANGED notGraph

(***************************************************************************)
(* RemoteLogCollector (SpecRemote).  A JSON value is [kind, v]: a number   *)
(* (v in tenths), or a string (v = 0).  A response body is a function from *)
(* its keys to values.                                                     *)
(***************************************************************************)
\* range(3) of collect_from_endpoint
MaxAttempts == 3

REQUIRED_FIELDS == {"cpu_usage", "memory_usage", "process_count",
                    "network_connections", "failed_logins", "timestamp"}

Num(tenths) == [kind |-> "num", v |-> tenths]

Str == [kind |-> "str", v |-> 0]

\* a response that passes validation
GoodBody ==
    [k \in REQUIRED_FIELDS |->
        CASE k = "cpu_usage" -> Num(500)
          [] k = "memory_usage" -> Num(1000)
          [] k = "process_count" -> Num(100)
          [] k = "network_connections" -> Num(50)
          [] k = "failed_logins" -> Num(0)
          [] OTHER -> Str]

Without(body, key) == [k \in (DOMAIN body) \ {key} |-> body[k]]

With(body, key, value) == [k \in DOMAIN body |-> IF k = key THEN value ELSE body[k]]

\* the body with a node_id of its own (a string that names no endpoint)
WithNodeId(body) == [k \in DOMAIN body \cup {"node_id"} |-> IF k = "node_id" THEN Str ELSE body[k]]

\* the JSON bodies the endpoints answer with
Bodies ==
    { GoodBody,
      Without(GoodBody, "failed_logins"),
      Without(GoodBody, "timestamp"),
      With(GoodBody, "cpu_usage", Num(1500)),
      With(GoodBody, "cpu_usage", Num(1001)),
      With(GoodBody, "cpu_usage", Str),
      With(GoodBody, "memory_usage", Num(-1)),
      With(GoodBody, "process_count", Num(-10)),
      With(GoodBody, "network_connections", Num(-5)),
      With(GoodBody, "failed_logins", Num(27)),
      With(GoodBody, "failed_logins", Str),
      With(GoodBody, "timestamp", Num(170)),
      WithNodeId(GoodBody) }

\* how _make_request can end without a body (it returns None), "raised"
\* for an exception that leaves it
RequestFailures == {"timeout", "connection_error", "http_error", "invalid_json", "raised"}

NoBody == [k \in {} |-> 0]

NoRecord == [present |-> FALSE, node_id |-> "", data |-> NoBody]

\* int(x): truncation towards zero
ParseInt(tenths) == IF tenths >= 0 THEN tenths \div 10 ELSE -((-tenths) \div 10)

\* _validate_schema(data); float() and int() raise on the strings here
ValidateSchema(data) ==
    /\ REQUIRED_FIELDS \subseteq DOMAIN data
    /\ data["cpu_usage"].kind = "num"
    /\ data["memory_usage"].kind = "num"
    /\ 0 <= data["cpu_usage"].v /\ data["cpu_usage"].v <= 1000
    /\ 0 <= data["memory_usage"].v /\ data["memory_usage"].v <= 1000
    /\ \A k \in {"process_count", "network_connections", "failed_logins"} :
          /\ data[k].kind = "num"
          /\ ~(ParseInt(data[k].v) < 0)
    /\ data["timestamp"].kind = "str"

\* the record keeps the node_id the response came with
TaggedUnlessPresent(data, node_id) ==
    [present |-> TRUE,
     node_id |-> IF "node_id" \in DOMAIN data THEN "response" ELSE node_id,
     data |-> Without(data, "node_id")]

\* response_data['node_id'] = endpoint.node_id: the record is the body with
\* its node_id key set to the endpoint's (data holds the other keys)
Tagged(data, node_id) ==
    [present |-> TRUE, node_id |-> node_id, data |-> Without(data, "node_id")]

\* a request is also repeated when its body fails validation
RetriedAlsoWhenInvalid(outcome) ==
    \/ outcome.kind # "response"
    \/ ~ValidateSchema(outcome.data)

\* the outcomes after which collect_from_endpoint tries again: the request
\* gave no body (148-162) or raised (177-189)
Retried(outcome) == outcome.kind # "response"

\* the attempts go on after the third
LastAttemptLate(attempt) == ~(attempt < MaxAttempts)

\* "attempt < 2" is false
LastAttempt(attempt) == ~(attempt < 2)

InitRemote ==
    /\ rpc = "idle"
    /\ rEndpoint = 1
    /\ rattempt = 0
    /\ nRequests = 0
    /\ rBackoffs = <<>>
    /\ rLast = [kind |-> "none", data |-> NoBody]
    /\ rOut = NoRecord
    /\ allLogs = <<>>
    /\ rCalls = <<>>
    /\ rReturns = <<>>

\* collect_from_all() begins with the first endpoint
CollectFromAll ==
    /\ rpc = "idle"
    /\ rpc' = "attempt"
    /\ rCalls' = Append(rCalls, Endpoints[rEndpoint])
    /\ UNCHANGED <<rEndpoint, rattempt, nRequests, rBackoffs, rLast, rOut, allLogs, rReturns>>
    /\ UNCHANGED notRemote

\* one attempt of collect_from_endpoint: the request, then a retry after a
\* backoff, or the return of None or of the validated body tagged with the
\* endpoint's node id
MakeRequest ==
    /\ rpc = "attempt"
    /\ nRequests' = nRequests + 1
    /\ \E outcome \in {[kind |-> f, data |-> NoBody] : f \in RequestFailures}
                      \cup {[kind |-> "response", data |-> b] : b \in Bodies} :
          /\ rLast' = outcome
          /\ IF Retried(outcome)
             THEN IF LastAttempt(rattempt)
                  THEN /\ rOut' = NoRecord
                       /\ rpc' = "returned"
                       /\ UNCHANGED <<rattempt, rBackoffs>>
                  ELSE /\ rattempt' = rattempt + 1
                       /\ rBackoffs' = Append(rBackoffs, 2 ^ rattempt)
                       /\ UNCHANGED <<rpc, rOut>>
             ELSE /\ rOut' = IF ValidateSchema(outcome.data)
                             THEN Tagged(outcome.data, Endpoints[rEndpoint])
                             ELSE NoRecord
                  /\ rpc' = "returned"
                  /\ UNCHANGED <<rattempt, rBackoffs>>
    /\ UNCHANGED <<rEndpoint, allLogs, rCalls, rReturns>>
    /\ UNCHANGED notRemote

\* collect_from_all takes the result of the endpoint and goes to the next
EndpointDone ==
    /\ rpc = "returned"
    /\ allLogs' = IF rOut.present THEN Append(allLogs, rOut) ELSE allLogs
    /\ rReturns' = Append(rReturns, rOut)
    /\ IF rEndpoint < Len(Endpoints)
       THEN /\ rEndpoint' = rEndpoint + 1
            /\ rCalls' = Append(rCalls, Endpoints[rEndpoint + 1])
            /\ rpc' = "attempt"
            /\ rattempt' = 0
            /\ nRequests' = 0
            /\ rBackoffs' = <<>>
            /\ rLast' = [kind |-> "none", data |-> NoBody]
       ELSE /\ rpc' = "done"
            /\ UNCHANGED <<rEndpoint, rattempt, nRequests, rBackoffs, rLast, rCalls>>
    /\ UNCHANGED rOut
    /\ UNCHANGED notRemote

(***************************************************************************)
(* The process from main() to its exit (SpecStartup): the construction of  *)
(* the LogCollector, then the command.                                     *)
(***************************************************************************)
\* collection cycles followed in one behaviour
MaxStartupCycles == 2

\* what platform.system() gives; "error" when it raises
Systems == {"windows", "linux", "darwin", "error"}

\* how ModelInterface(model_path) ends
ModelOutcomes == {"loaded", "no_tensorflow", "file_missing", "load_failed"}

\* the errors a collection cycle can hand to handle_recoverable_error and
\* handle_warning
CycleErrors == {"none", "recoverable", "warning"}

InitStart ==
    /\ mpc = "begin"
    /\ mcmd = "none"
    /\ mOs = "none"
    /\ exitCode = -1
    /\ mRunning = FALSE
    /\ mCycles = 0
    /\ mErrors = <<>>

\* handle_critical_error / handle_recoverable_error / handle_warning called
\* at a point of main from which it goes on to next: the error is logged,
\* then sys.exit(1) or the return to the caller
HandleError(category, next) ==
    /\ mErrors' = Append(mErrors, category)
    /\ IF Terminates(category)
       THEN mpc' = "exited" /\ exitCode' = 1
       ELSE mpc' = next /\ UNCHANGED exitCode

\* main() -> run(): the command is parsed, the configuration loaded, and
\* LogCollector(config) begins
MainRun ==
    /\ mpc = "begin"
    /\ \E c \in {"start", "collect-once", "export-graph"} : mcmd' = c
    /\ mpc' = "detect_os"
    /\ UNCHANGED <<mOs, exitCode, mRunning, mCycles, mErrors>>
    /\ UNCHANGED notStart

\* self.os_type = self._detect_os()
DetectOs ==
    /\ mpc = "detect_os"
    /\ \E system \in Systems :
          IF system \in {"windows", "linux"}
          THEN mpc' = "load_model" /\ mOs' = system /\ UNCHANGED <<exitCode, mErrors>>
          ELSE HandleError("critical", "load_model") /\ UNCHANGED mOs
    /\ UNCHANGED <<mcmd, mRunning, mCycles>>
    /\ UNCHANGED notStart

\* self.model_interface = ModelInterface(...) inside the try of __init__
LoadModel ==
    /\ mpc = "load_model"
    /\ \E model \in ModelOutcomes :
          IF model = "loaded"
          THEN mpc' = "components" /\ UNCHANGED <<exitCode, mErrors>>
          ELSE HandleError("critical", "components")
    /\ UNCHANGED <<mcmd, mOs, mRunning, mCycles>>
    /\ UNCHANGED notStart

\* the other components: StorageManager reports a directory it cannot create
\* as recoverable and goes on; AlertEngine raises ValueError for a threshold
\* outside [0, 1], which run() catches and turns into the return of 1
InitComponents ==
    /\ mpc = "components"
    /\ \/ mpc' = "constructed" /\ UNCHANGED <<exitCode, mErrors>>
       \/ HandleError("recoverable", "constructed")
       \/ mpc' = "returned" /\ exitCode' = 1 /\ UNCHANGED mErrors
    /\ UNCHANGED <<mcmd, mOs, mRunning, mCycles>>
    /\ UNCHANGED notStart

\* cmd_start: self.collector.start()
CmdStart ==
    /\ mpc = "constructed"
    /\ mcmd = "start"
    /\ mRunning' = TRUE
    /\ mpc' = "running"
    /\ UNCHANGED <<mcmd, mOs, exitCode, mCycles, mErrors>>
    /\ UNCHANGED notStart

\* a cycle of the scheduling loop, with or without an error that a handler
\* takes
BackgroundCycle ==
    /\ mpc = "running"
    /\ mCycles < MaxStartupCycles
    /\ mCycles' = mCycles + 1
    /\ \E error \in CycleErrors :
          IF error = "none"
          THEN UNCHANGED <<mpc, exitCode, mErrors>>
          ELSE HandleError(error, "running")
    /\ UNCHANGED <<mcmd, mOs, mRunning>>
    /\ UNCHANGED notStart

\* SIGINT or SIGTERM: collector.stop(), then sys.exit(0)
Shutdown ==
    /\ mpc = "running"
    /\ mRunning' = FALSE
    /\ mpc' = "returned"
    /\ exitCode' = 0
    /\ UNCHANGED <<mcmd, mOs, mCycles, mErrors>>
    /\ UNCHANGED notStart

\* cmd_collect_once: one cycle; run() returns 0 if it gave a snapshot and 1
\* if not, and main() exits with that
CmdCollectOnce ==
    /\ mpc = "constructed"
    /\ mcmd = "collect-once"
    /\ mCycles' = mCycles + 1
    /\ \E error \in CycleErrors, gave \in BOOLEAN :
          /\ error = "none" => gave
          /\ IF error = "none"
             THEN mpc' = "returned" /\ UNCHANGED mErrors
             ELSE /\ mErrors' = Append(mErrors, error)
                  /\ mpc' = IF Terminates(error) THEN "exited" ELSE "returned"
          /\ exitCode' = IF gave /\ ~Terminates(error) THEN 0 ELSE 1
    /\ UNCHANGED <<mcmd, mOs, mRunning>>
    /\ UNCHANGED notStart

\* cmd_export_graph: the graph is exported, no cycle runs; run() returns 0
\* if the export was written and 1 if not
CmdExportGraph ==
    /\ mpc = "constructed"
    /\ mcmd = "export-graph"
    /\ mpc' = "returned"
    /\ \E code \in {0, 1} : exitCode' = code
    /\ UNCHANGED <<mcmd, mOs, mRunning, mCycles, mErrors>>
    /\ UNCHANGED notStart

(***************************************************************************)
(* GraphEngine.propagate_risk, step by step (SpecPropagate): the for loop  *)
(* over high_risk_nodes and, for each source, the while loop over the      *)
(* queue, one iteration at a time.  The graphs are all graphs over up to   *)
(* three nodes, self-loops and cycles included.                            *)
(***************************************************************************)
InitProp ==
    /\ ppc = "new"
    /\ pGraph = EmptyGraph
    /\ pGraph0 = EmptyGraph
    /\ pSources = <<>>
    /\ pSource = ""
    /\ pQueue = <<>>
    /\ pVisited = {}
    /\ pEnqueued = <<>>
    /\ pUpdated = <<>>

\* high_risk_nodes, in the order graph.nodes lists them
HighRiskNodes(g) ==
    SelectSeq(NodesInOrder(g), LAMBDA n : g.nodes[n].anomaly_score > 0)

\* propagate_risk() is called on a graph; high_risk_nodes is computed
PropagateRiskBegin ==
    /\ ppc = "new"
    /\ \E S \in SUBSET GraphNodes :
         \E anomalies \in [S -> UNION {AnomalyOptions(n) : n \in S}],
            E \in SUBSET (S \X S) :
            /\ \A n \in S : anomalies[n] \in AnomalyOptions(n)
            /\ pGraph' = GivenGraph(S, [n \in S |-> CHOOSE t \in TypeOptions(n) : TRUE],
                                    anomalies, "none", E)
    /\ pGraph0' = pGraph'
    /\ pSources' = HighRiskNodes(pGraph')
    /\ ppc' = "sources"
    /\ UNCHANGED <<pSource, pQueue, pVisited, pEnqueued, pUpdated>>
    /\ UNCHANGED notProp

\* visited starts empty
VisitedAtStartEmpty(source) == {}

\* visited = {source}
VisitedAtStart(source) == {source}

\* an entry of the queue: (node, risk, depth)
QueueEntry(node, risk, depth) == [node |-> node, risk |-> risk, depth |-> depth]

\* the for loop takes the next source: visited and queue are set up
TraversalBegin ==
    /\ ppc = "sources"
    /\ pSources # <<>>
    /\ pSource' = Head(pSources)
    /\ pSources' = Tail(pSources)
    /\ pVisited' = VisitedAtStart(Head(pSources))
    /\ pQueue' = <<QueueEntry(Head(pSources), pGraph.nodes[Head(pSources)].anomaly_score, 0)>>
    /\ pEnqueued' = <<Head(pSources)>>
    /\ pUpdated' = <<>>
    /\ ppc' = "queue"
    /\ UNCHANGED <<pGraph, pGraph0>>
    /\ UNCHANGED notProp

\* the neighbours one iteration puts on the queue: the successors of node
\* that are not in visited, in the order the graph lists them
NewNeighbors(g, node, seen) ==
    SelectSeq(NodesInOrder(g), LAMBDA n : n \in Successors(g, node) /\ n \notin seen)

\* one iteration of 'while queue': popleft, the write of risk_score, and
\* the loop over the successors
QueueStep ==
    /\ ppc = "queue"
    /\ pQueue # <<>>
    /\ LET entry == Head(pQueue)
           fresh == NewNeighbors(pGraph, entry.node, pVisited)
       IN /\ pGraph' = [pGraph EXCEPT !.nodes[entry.node].risk_score =
                           Max(@, Propagated(entry.risk, entry.depth))]
          /\ pUpdated' = Append(pUpdated, entry.node)
          /\ pVisited' = pVisited \cup SeqRange(fresh)
          /\ pQueue' = Tail(pQueue) \o
                          [i \in 1..Len(fresh) |->
                              QueueEntry(fresh[i], entry.risk, entry.depth + 1)]
          /\ pEnqueued' = pEnqueued \o fresh
    /\ UNCHANGED <<ppc, pGraph0, pSources, pSource>>
    /\ UNCHANGED notProp

\* the queue is empty: the while loop ends, back to the for loop
TraversalEnd ==
    /\ ppc = "queue"
    /\ pQueue = <<>>
    /\ ppc' = "sources"
    /\ UNCHANGED <<pGraph, pGraph0, pSources, pSource, pQueue, pVisited, pEnqueued, pUpdated>>
    /\ UNCHANGED notProp

\* the for loop has taken every source: propagate_risk returns
PropagateRiskReturn ==
    /\ ppc = "sources"
    /\ pSources = <<>>
    /\ ppc' = "done"
    /\ UNCHANGED <<pGraph, pGraph0, pSources, pSource, pQueue, pVisited, pEnqueued, pUpdated>>
    /\ UNCHANGED notProp

(***************************************************************************)
(* GraphEngine driven by sequences of its public operations (SpecOps):     *)
(* from the empty graph of __init__, up to MaxOps calls of add_node,       *)
(* add_edge, update_anomaly_score, add_ip_nodes_from_feature_vector and    *)
(* propagate_risk, in any order.                                           *)
(***************************************************************************)
\* operations in one behaviour
MaxOps == 3

NoFv == [node_id |-> "", source_ips |-> <<>>, destination_ips |-> <<>>,
         connection_count_per_ip |-> [i \in {} |-> 0],
         failed_attempts_per_ip |-> [i \in {} |-> 0]]

NoScore == [connection_count |-> 0, failed_attempts |-> 0, anomaly |-> -1]

InitOps ==
    /\ nOps = 0
    /\ lastFv = NoFv
    /\ ipScore = NoScore

\* the nodes and types add_node is called with; "router" is no node type
AddNodeArgs ==
    {<<"A", "remote_server">>, <<"M", "machine">>, <<"M", "process">>,
     <<"X", "external_ip">>, <<"X", "router">>}

\* the edges add_edge is called with; "tunnel" is no edge type
AddEdgeArgs ==
    {<<"A", "M", "network_connection">>, <<"M", "X", "process_spawn">>,
     <<"X", "M", "network_connection">>, <<"X", "X", "service_access">>,
     <<"M", "X", "tunnel">>}

\* the IP lists (source_ips, destination_ips) of the feature vectors, and
\* the connection count and failed attempts they report for their IPs
IpLists == {<<<<"X">>, <<>>>>, <<<<>>, <<"X">>>>, <<<<"A">>, <<"X">>>>}

IpCounts == {<<50, 5>>, <<51, 0>>, <<0, 6>>, <<120, 12>>}

\* a feature vector of machine M with the given IP lists and counts
FeatureVectorOf(ips, counts) ==
    [node_id |-> "M", source_ips |-> ips[1], destination_ips |-> ips[2],
     connection_count_per_ip |-> [i \in SeqRange(ips[1]) \cup SeqRange(ips[2]) |-> counts[1]],
     failed_attempts_per_ip |-> [i \in SeqRange(ips[1]) \cup SeqRange(ips[2]) |-> counts[2]]]

\* an operation is called on the graph
OpCalled(op) ==
    /\ nOps < MaxOps
    /\ nOps' = nOps + 1
    /\ g0' = graph
    /\ gOp' = op
    /\ UNCHANGED notOps

AddNodeOp ==
    /\ \E a \in AddNodeArgs :
          /\ graph' = AddNodeChecked(graph, a[1], a[2], NoAttributes)
          /\ OpCalled([NoOp EXCEPT !.op = "add_node", !.node = a[1], !.type = a[2],
                                   !.error = IF a[2] \notin NODE_TYPES
                                             THEN "ValueError" ELSE "none"])
    /\ UNCHANGED <<lastFv, ipScore>>

AddEdgeOp ==
    /\ \E a \in AddEdgeArgs :
          /\ graph' = AddEdgeChecked(graph, a[1], a[2], a[3])
          /\ OpCalled([NoOp EXCEPT !.op = "add_edge", !.node = a[1], !.target = a[2],
                                   !.type = a[3],
                                   !.error = IF a[3] \notin EDGE_TYPES
                                             THEN "ValueError" ELSE "none"])
    /\ UNCHANGED <<lastFv, ipScore>>

UpdateAnomalyScoreOp ==
    /\ \E n \in GraphNodes, score \in {300, 900} :
          /\ graph' = UpdateAnomalyScoreChecked(graph, n, score)
          /\ OpCalled([NoOp EXCEPT !.op = "update_anomaly_score", !.node = n,
                                   !.score = score,
                                   !.error = IF ~HasNode(graph, n)
                                             THEN "KeyError" ELSE "none"])
    /\ UNCHANGED <<lastFv, ipScore>>

AddIpNodesOp ==
    /\ \E ips \in IpLists, counts \in IpCounts :
          /\ lastFv' = FeatureVectorOf(ips, counts)
          /\ graph' = AddIpNodesFromFeatureVector(graph, lastFv')
    /\ OpCalled([NoOp EXCEPT !.op = "add_ip_nodes_from_feature_vector", !.node = "M"])
    /\ UNCHANGED ipScore

\* propagate_risk(), the sources in the order the graph lists its nodes
PropagateRiskOp ==
    /\ graph' = PropagateInOrder(graph, HighRiskNodes(graph))
    /\ OpCalled([NoOp EXCEPT !.op = "propagate_risk"])
    /\ UNCHANGED <<lastFv, ipScore>>

\* _compute_ip_anomaly called on its own, on counts around its thresholds
\* and caps
ComputeIpAnomalyOp ==
    /\ nOps = 0
    /\ \E c \in {-1, 0, 50, 51, 99, 100, 101, 200, 1000},
          f \in {-1, 0, 5, 6, 9, 10, 11, 100} :
          ipScore' = [connection_count |-> c, failed_attempts |-> f,
                      anomaly |-> ComputeIpAnomaly(c, f)]
    /\ nOps' = MaxOps
    /\ UNCHANGED <<graph, g0, gOp, lastFv>>
    /\ UNCHANGED notOps

(***************************************************************************)
(* save_log called from two threads on the same history file               *)
(* (SpecConcurrent): the background thread of _schedule_collection and the *)
(* controlling thread in a synchronous collect_once both reach Step 8.     *)
(* Each save_log runs its attempt step by step: read the file, open it for *)
(* writing (which empties it), dump the list, read it back to validate.    *)
(***************************************************************************)
\* save_log calls of each thread in one behaviour
MaxRounds == 2

Savers == {"worker", "ctl"}

OtherSaver(t) == IF t = "worker" THEN "ctl" ELSE "worker"

InitConcurrent ==
    /\ hfile = Absent
    /\ svpc = [t \in Savers |-> "idle"]
    /\ sventry = [t \in Savers |-> <<t, 0>>]
    /\ svdata = [t \in Savers |-> <<>>]
    /\ svattempt = [t \in Savers |-> 0]
    /\ svcalls = [t \in Savers |-> 0]
    /\ svTrue = {}
    /\ overlapped = FALSE

\* the step of thread t runs while the other thread is inside a save_log
Overlaps(t) == overlapped \/ svpc[OtherSaver(t)] # "idle"

\* collect_once of thread t reaches Step 8 and calls save_log
ConcSaveLog(t) ==
    /\ svpc[t] = "idle"
    /\ svcalls[t] < MaxRounds
    /\ svcalls' = [svcalls EXCEPT ![t] = @ + 1]
    /\ sventry' = [sventry EXCEPT ![t] = <<t, svcalls[t] + 1>>]
    /\ svattempt' = [svattempt EXCEPT ![t] = 0]
    /\ svpc' = [svpc EXCEPT ![t] = "read"]
    /\ overlapped' = Overlaps(t)
    /\ UNCHANGED <<hfile, svdata, svTrue>>
    /\ UNCHANGED notConc

\* data = json.load(f) (or [] for a missing, corrupt or non-list file), then
\* data.append(log_entry): the list is that of this thread from here on
ConcAppended(t) == Append(IF hfile.state = "array" THEN hfile.data ELSE <<>>, sventry[t])

ConcRead(t) ==
    /\ svpc[t] = "read"
    /\ svdata' = [svdata EXCEPT ![t] = ConcAppended(t)]
    /\ svpc' = [svpc EXCEPT ![t] = "open"]
    /\ overlapped' = Overlaps(t)
    /\ UNCHANGED <<hfile, sventry, svattempt, svcalls, svTrue>>
    /\ UNCHANGED notConc

\* _write_to_file: open(filepath, 'w') empties the file
ConcOpen(t) ==
    /\ svpc[t] = "open"
    /\ hfile' = Corrupt
    /\ svpc' = [svpc EXCEPT ![t] = "dump"]
    /\ overlapped' = Overlaps(t)
    /\ UNCHANGED <<sventry, svdata, svattempt, svcalls, svTrue>>
    /\ UNCHANGED notConc

\* _write_to_file: json.dump(data, f) and the file is closed
ConcDump(t) ==
    /\ svpc[t] = "dump"
    /\ hfile' = Array(svdata[t])
    /\ svpc' = [svpc EXCEPT ![t] = "validate"]
    /\ overlapped' = Overlaps(t)
    /\ UNCHANGED <<sventry, svdata, svattempt, svcalls, svTrue>>
    /\ UNCHANGED notConc

\* ensure_valid_json reads the file back: True and save_log returns True;
\* False (the other thread has just emptied the file) and the attempt
\* fails: the next attempt, or False on the last
ConcValidate(t) ==
    /\ svpc[t] = "validate"
    /\ IF hfile.state = "array"
       THEN /\ svTrue' = svTrue \cup {sventry[t]}
            /\ svpc' = [svpc EXCEPT ![t] = "idle"]
            /\ UNCHANGED svattempt
       ELSE /\ IF svattempt[t] = MaxRetries - 1
               THEN /\ svpc' = [svpc EXCEPT ![t] = "idle"]
                    /\ UNCHANGED svattempt
               ELSE /\ svpc' = [svpc EXCEPT ![t] = "read"]
                    /\ svattempt' = [svattempt EXCEPT ![t] = @ + 1]
            /\ UNCHANGED svTrue
    /\ overlapped' = Overlaps(t)
    /\ UNCHANGED <<hfile, sventry, svdata, svcalls>>
    /\ UNCHANGED notConc

Init ==
    /\ InitLife /\ InitCycle /\ InitStore /\ InitAlert /\ InitGraph /\ InitRemote /\ InitStart
    /\ InitProp /\ InitOps /\ InitConcurrent

Next ==
    \/ Start
    \/ StopCall
    \/ StopJoinTick
    \/ StopJoinReturn
    \/ CtlCollectBegin
    \/ CtlCollectStage
    \/ \E t \in Threads : WorkerLoopCheck(t)
    \/ \E t \in Threads : WorkerStage(t)
    \/ \E t \in Threads : WorkerWaitTick(t)
    \/ \E t \in Threads : WorkerWaitReturn(t)

Spec == Init /\ [][Next]_vars

NextCycle ==
    \/ CycleBegin
    \/ StageMetrics
    \/ StageRemoteFetch
    \/ StageProcess
    \/ StageValidate
    \/ StagePredict
    \/ StageAlert
    \/ StageGraph
    \/ StageSaveLog
    \/ StageSaveAlert
    \/ StageRemoteOne
    \/ CycleReturn

SpecCycle == Init /\ [][NextCycle]_vars

NextStore ==
    \/ StorageManagerInit
    \/ SaveLog
    \/ SaveAlert
    \/ ReadExisting
    \/ WriteToFile
    \/ EnsureValidJson

SpecStore == Init /\ [][NextStore]_vars

NextAlert ==
    \/ AlertEngineInit
    \/ ProcessPredictionCall
    \/ CalculateSeverityCall
    \/ IdentifySuspiciousIpsCall

SpecAlert == Init /\ [][NextAlert]_vars

NextGraph ==
    \/ GraphGiven
    \/ PropagateRiskCall
    \/ FindHighestRiskPathCall
    \/ ExportJsonCall
    \/ AddNodeCall
    \/ AddEdgeCall
    \/ UpdateAnomalyScoreCall

SpecGraph == Init /\ [][NextGraph]_vars

NextRemote ==
    \/ CollectFromAll
    \/ MakeRequest
    \/ EndpointDone

SpecRemote == Init /\ [][NextRemote]_vars

NextStartup ==
    \/ MainRun
    \/ DetectOs
    \/ LoadModel
    \/ InitComponents
    \/ CmdStart
    \/ BackgroundCycle
    \/ Shutdown
    \/ CmdCollectOnce
    \/ CmdExportGraph

SpecStartup == Init /\ [][NextStartup]_vars

\* the steps of a call of propagate_risk that has begun
PropagateRiskStep ==
    \/ TraversalBegin
    \/ QueueStep
    \/ TraversalEnd
    \/ PropagateRiskReturn

NextPropagate ==
    \/ PropagateRiskBegin
    \/ PropagateRiskStep

\* propagate_risk runs in the thread that called it, which goes on taking
\* steps until the call returns
SpecPropagate == Init /\ [][NextPropagate]_vars /\ WF_vars(PropagateRiskStep)

NextOps ==
    \/ AddNodeOp
    \/ AddEdgeOp
    \/ UpdateAnomalyScoreOp
    \/ AddIpNodesOp
    \/ PropagateRiskOp
    \/ ComputeIpAnomalyOp

SpecOps == Init /\ [][NextOps]_vars

NextConcurrent ==
    \E t \in Savers :
        \/ ConcSaveLog(t)
        \/ ConcRead(t)
        \/ ConcOpen(t)
        \/ ConcDump(t)
        \/ ConcValidate(t)

SpecConcurrent == Init /\ [][NextConcurrent]_vars

\* The scheduler runs every live background thread; every stage of a cycle is
\* bounded by its own timeout, so a thread that can step eventually does.
FairSpec == Spec /\ \A t \in Threads : WF_vars(WorkerStep(t))

\* Only the controlling thread's join is assumed to make progress (time
\* passes, the join returns); a background thread may be blocked for ever.
SpecStop == Spec /\ WF_vars(StopJoinTick \/ StopJoinReturn)

(***************************************************************************)
(* Claims about the orchestrator's threads.                                *)
(***************************************************************************)

\* C2: a background cycle and a synchronous collect_once() on the controlling
\* thread are mutually exclusive: never are both inside a stage that touches
\* the attack graph or the history / alert files.
C2_CyclesExclusive ==
    ~(ctl \in SharedStages /\ \E t \in Threads : wpc[t] \in SharedStages)

\* C3: at most one background scheduling loop is alive at any time.
C3_SingleLoop == Cardinality({t \in Threads : Alive(t)}) <= 1

\* C4: the orchestrator is Stopped or Running; start() on a Running instance
\* changes nothing (state, threads, stop signal) and only warns; stop() on a
\* Stopped instance changes nothing, sets no stop signal and does not wait.
C4_NoOpCalls ==
    [][ /\ running \in BOOLEAN
        /\ (Start /\ running) =>
              /\ running' = running
              /\ stopEvent' = stopEvent
              /\ wpc' = wpc
              /\ collectionThread' = collectionThread
              /\ ctlLog' = "already_running"
        /\ (StopCall /\ ~running) =>
              /\ running' = running
              /\ stopEvent' = stopEvent
              /\ wpc' = wpc
              /\ ctl' = "idle"
              /\ ctlLog' = "not_running"
      ]_vars

\* start() was called on a Running instance with its loop alive
C4_Witness ==
    /\ ctlLog = "already_running"
    /\ running
    /\ \E t \in Threads : Alive(t)

\* C5: a stop signal is observed only between cycles: a thread inside a cycle
\* goes on to the cycle's next stage or, at its end, to the interval wait;
\* while the stop signal stays set no thread begins a cycle and no thread
\* sleeps in the interval wait; and, unless start() clears the signal again,
\* every loop eventually exits.
C5_StopBetweenCycles ==
    /\ [][ \A t \in Threads :
             /\ (InCycle(t) /\ wpc'[t] # wpc[t]) =>
                    wpc'[t] \in (StageSucc(wpc[t]) \ {"end"}) \cup {"wait"}
             /\ (wpc'[t] = "done" /\ wpc[t] # "done") => wpc[t] = "loop"
             /\ (stopEvent /\ stopEvent' /\ ~InCycle(t)) => wpc'[t] \notin Stages
             /\ (stopEvent /\ stopEvent' /\ wpc[t] = "wait" /\ wpc'[t] = "wait") =>
                    waitLeft'[t] = waitLeft[t]
          ]_vars
    /\ (stopEvent ~> (~stopEvent \/ \A t \in Threads : ~Alive(t)))

\* stop() timed out on a thread that was inside its cycle, and that thread's
\* loop has since exited
C5_Witness ==
    /\ stopEvent
    /\ ctlLog = "stopped_timeout"
    /\ collectionThread # 0
    /\ wpc[collectionThread] = "done"

\* C6: stop() always returns: once it waits in the join it comes back, with
\* the orchestrator Stopped, whether or not the background thread finishes.
C6_StopReturns ==
    (ctl = "join") ~> (ctl = "idle" /\ ~running
                        /\ ctlLog \in {"stopped_timeout", "stopped_joined"})

\* stop() has returned after its timeout while the thread is still in a cycle
C6_Witness ==
    /\ ctl = "idle"
    /\ ~running
    /\ ctlLog = "stopped_timeout"
    /\ collectionThread # 0
    /\ InCycle(collectionThread)

(***************************************************************************)
(* Claims about one collection cycle (SpecCycle).                          *)
(***************************************************************************)

\* a call of collect_once has returned
CycleEnded == cpc = "idle" /\ ret # "pending"

\* C1: no stage failure escapes collect_once: whatever stages fail, the
\* failure is never left uncaught and never terminates the process, and the
\* call that returns after failures returns the local snapshot or None.
C1_NoStageEscapes ==
    /\ cpc \notin {"escaped", "terminated"}
    /\ cpc \in Stages \cup {"idle"}
    /\ (cpc = "idle" /\ failed # {}) => ret \in {"snapshot", "None"}

\* a cycle returned the snapshot although scoring, the graph update, the log
\* save and the construction of a remote snapshot all failed in it
C1_Witness ==
    /\ CycleEnded
    /\ ret = "snapshot"
    /\ {"predict", "graph", "save_log"} \subseteq failed
    /\ \E r \in SeqRange(remoteLogs) : rOutcome[r] = "construct"

\* a cycle gave up at Step 1 and returned None
C1_WitnessNone ==
    /\ CycleEnded
    /\ ret = "None"
    /\ failed = {"metrics"}

\* C7: when parsing or validation of the local snapshot fails, the cycle
\* returns None and every remote snapshot fetched in the cycle has still been
\* processed.
C7_RemotesProcessedAfterLocalFailure ==
    (CycleEnded /\ failed \cap {"process", "validate"} # {}) =>
        /\ ret = "None"
        /\ \A r \in SeqRange(remoteLogs) : rOutcome[r] # "unprocessed"

\* what the code does instead: the cycle that fails at parsing or validation
\* returns None with none of its fetched remote snapshots processed
C7_RemotesDroppedAfterLocalFailure ==
    (CycleEnded /\ failed \cap {"process", "validate"} # {}) =>
        /\ ret = "None"
        /\ \A r \in SeqRange(remoteLogs) : rOutcome[r] = "unprocessed"
        /\ Len(history) = hist0
        /\ Len(alertsFile) = alerts0

\* validation failed in a cycle that had fetched both remote snapshots
C7_Witness ==
    /\ CycleEnded
    /\ "validate" \in failed
    /\ remoteLogs = Endpoints

\* C8: when scoring of the local snapshot fails, only alerting is skipped: no
\* alert is produced or saved for the snapshot, and (each of these steps not
\* failing itself) the snapshot's IP data is in the graph with the risk
\* propagated when Step 7 is over, the snapshot is the entry appended to the
\* history when Step 8 is over, and the cycle returns the snapshot.
C8_ScoringFailureSkipsOnlyAlerting ==
    "predict" \in failed =>
        /\ alert = NoAlert
        /\ cpc \notin {"alert", "save_alert"}
        /\ \A i \in (alerts0 + 1)..Len(alertsFile) : alertsFile[i].node_id # LocalNode
        /\ (cpc = "save_log" /\ "graph" \notin failed) =>
              /\ HasNode(graph, LocalNode)
              /\ HasNode(graph, "ip1")
              /\ <<LocalNode, "ip1">> \in DOMAIN graph.edges
              /\ graph.nodes["ip1"].anomaly_score >= 500
              /\ \A n \in DOMAIN graph.nodes :
                     graph.nodes[n].risk_score >= graph.nodes[n].anomaly_score
              /\ PropagateRisk(graph) = graph
        /\ (cpc \in {"remote_process", "idle"} /\ "save_log" \notin failed) =>
              /\ Len(history) > hist0
              /\ history[hist0 + 1] = LocalNode
        /\ cpc = "idle" => ret = "snapshot"

\* a cycle in which only scoring failed has returned the snapshot, with the
\* snapshot stored and its IP data in the graph
C8_Witness ==
    /\ CycleEnded
    /\ failed = {"predict"}
    /\ ret = "snapshot"
    /\ alert = NoAlert
    /\ Len(history) > hist0
    /\ history[hist0 + 1] = LocalNode
    /\ HasNode(graph, "ip1")

\* C9: a failure while one remote snapshot is processed leaves the rest of
\* the cycle alone: in a cycle whose local snapshot got through Steps 1-4,
\* every fetched remote snapshot has been attempted when the cycle ends,
\* those processed without failure are in the graph and in the history, and
\* the cycle returns the local snapshot.
C9_RemoteFailureIsolated ==
    (CycleEnded /\ failed \cap {"metrics", "process", "validate"} = {}) =>
        /\ ret = "snapshot"
        /\ \A r \in SeqRange(remoteLogs) :
              /\ rOutcome[r] # "unprocessed"
              /\ rOutcome[r] = "ok" =>
                    /\ HasNode(graph, r)
                    /\ graph.nodes[r].anomaly_score = RemoteScore(r)
                    /\ \E i \in (hist0 + 1)..Len(history) : history[i] = r

\* scoring of the first remote snapshot failed; the second one was processed
\* and stored, and the cycle returned the local snapshot
C9_Witness ==
    /\ CycleEnded
    /\ ret = "snapshot"
    /\ remoteLogs = Endpoints
    /\ rOutcome["r1"] = "predict"
    /\ rOutcome["r2"] = "ok"
    /\ \E i \in (hist0 + 1)..Len(history) : history[i] = "r2"

(***************************************************************************)
(* Claims about the StorageManager (SpecStore).                            *)
(***************************************************************************)

\* C10: storage is append-only: starting from an absent file or a file that
\* holds an array, whenever no save is in progress and every save of a file
\* so far has returned True, the file holds what it held at the start
\* followed by exactly the saved entries, in call order.
C10_AppendOnly ==
    \A k \in FileNames :
        (/\ spc = "idle"
         /\ base[k].state \in {"absent", "array"}
         /\ unsaved[k] = 0
         /\ saved[k] # <<>>) =>
            files[k] = Array(base[k].data \o saved[k])

\* a save call has returned
SaveReturned == spc = "idle" /\ nCalls > 0

\* C11: with max_retries = m, a save in which only writes fail makes one
\* write attempt per attempt of the retry loop: it returns True with k + 1
\* write attempts when the first k < m writes failed, and False with exactly
\* m write attempts when every write failed.
C11_RetryCounts ==
    (/\ SaveReturned
     /\ sstart.state # "corrupt"
     /\ sfaults \subseteq {"open", "dump", "decode"}) =>
        /\ sresult \in {"True", "False"}
        /\ sresult = "True" => writes = sattempt + 1 /\ writes <= MaxRetries
        /\ sresult = "False" => writes = MaxRetries

\* C12: a save that finds the file holding invalid JSON, or valid JSON that
\* is not an array, treats it as empty: it returns True and the file is then
\* the one-element array of the new record.
C12_InvalidContentTreatedAsEmpty ==
    (/\ SaveReturned
     /\ sstart.state \in {"corrupt", "object"}
     /\ sfaults \subseteq {"decode"}) =>
        /\ sresult = "True"
        /\ files[sfile] = Array(<<sentry>>)

(***************************************************************************)
(* Claims about the AlertEngine (SpecAlert).                               *)
(***************************************************************************)

\* process_prediction has been called
AlertCalled == apc = "called"

\* C13: for every threshold and score in [0, 1], process_prediction (its
\* Alert constructor not failing) returns an alert if and only if the score
\* is strictly above the threshold, and the alert carries the prediction's
\* score, the given node id and the snapshot it was given.
C13_AlertIffAboveThreshold ==
    (AlertCalled /\ "construct" \notin aIn.faults) =>
        /\ aOut.present <=> aIn.score > threshold
        /\ aOut.present =>
              /\ aOut.anomaly_score = aIn.score
              /\ aOut.node_id = aIn.node_id
              /\ aOut.feature_vector = aIn.snap

\* a score equal to the threshold gave no alert
C13_Witness ==
    /\ AlertCalled
    /\ aIn.faults = {}
    /\ aIn.score = threshold
    /\ threshold = 700
    /\ ~aOut.present

\* a score just above the threshold gave an alert for the node
C13_WitnessAlert ==
    /\ AlertCalled
    /\ aIn.score = 701
    /\ threshold = 700
    /\ aOut.present
    /\ aOut.node_id = "r1"

\* C14: once the score exceeds the threshold, a failure to derive the
\* reason, the severity or the suspicious IPs (or the id, the timestamp)
\* still gives an alert: the field whose derivation failed holds its
\* fallback, every other field its derived value.
C14_DerivationFallbacks ==
    (AlertCalled /\ aIn.score > threshold /\ "construct" \notin aIn.faults) =>
        /\ aOut.present
        /\ aOut.suspected_reason =
              IF "reason" \in aIn.faults THEN <<"anomalous pattern detected">>
              ELSE DetermineSuspectedReason(aIn.snap)
        /\ aOut.severity =
              IF "severity" \in aIn.faults THEN "medium"
              ELSE CalculateSeverity(aIn.score)
        /\ aOut.suspicious_ips =
              IF "ips" \in aIn.faults THEN <<>>
              ELSE IdentifySuspiciousIps(aIn.snap)
        /\ aOut.anomaly_score = aIn.score
        /\ aOut.node_id = aIn.node_id

\* the severity could not be derived for a critical score: the alert has
\* severity medium, and the derived reasons and suspicious IPs
C14_Witness ==
    /\ AlertCalled
    /\ aIn.faults = {"severity"}
    /\ aIn.score = 1000
    /\ aOut.present
    /\ aOut.severity = "medium"
    /\ Len(aOut.suspected_reason) = 3
    /\ aOut.suspicious_ips = <<"ip2", "ip1">>

(***************************************************************************)
(* Claims about the GraphEngine (SpecGraph).                               *)
(***************************************************************************)

\* the simple paths of g from s to t, as sets of node sequences
SimplePathsBetween(g, s, t) ==
    {p \in UNION {[1..k -> DOMAIN g.nodes] : k \in 1..Cardinality(DOMAIN g.nodes)} :
        /\ p[1] = s
        /\ p[Len(p)] = t
        /\ \A i, j \in 1..Len(p) : p[i] = p[j] => i = j
        /\ \A i \in 1..(Len(p) - 1) : <<p[i], p[i + 1]>> \in DOMAIN g.edges}

Reaches(g, s, t) == SimplePathsBetween(g, s, t) # {}

\* the fewest-edges distance from s to t, t reachable from s
Dist(g, s, t) ==
    LET lens == {Len(p) - 1 : p \in SimplePathsBetween(g, s, t)}
    IN CHOOSE d \in lens : \A e \in lens : d <= e

SetMax(S) == CHOOSE x \in S : \A y \in S : y <= x

\* C15: after propagate_risk every node v has the maximum of its earlier
\* risk score and, over the nodes s with a positive anomaly score that reach
\* v, anomaly_score(s) * d^dist(s, v), whatever the order of the sources;
\* anomaly scores, nodes and edges are as before.
C15_PropagationIsMaxOverSources ==
    gpc = "propagated" =>
        /\ DOMAIN graph.nodes = DOMAIN g0.nodes
        /\ graph.edges = g0.edges
        /\ \A v \in DOMAIN g0.nodes :
              /\ graph.nodes[v].anomaly_score = g0.nodes[v].anomaly_score
              /\ graph.nodes[v].risk_score =
                    SetMax({g0.nodes[v].risk_score} \cup
                           {(g0.nodes[s].anomaly_score * DecayNum ^ Dist(g0, s, v))
                               \div (DecayDen ^ Dist(g0, s, v)) :
                            s \in {x \in DOMAIN g0.nodes :
                                      g0.nodes[x].anomaly_score > 0 /\ Reaches(g0, x, v)}})

\* anomaly 0.9 at the head of the chain A -> M -> X gave 0.9, 0.63, 0.441
C15_Witness ==
    /\ gpc = "propagated"
    /\ DOMAIN g0.edges = {<<"A", "M">>, <<"M", "X">>}
    /\ g0.nodes["A"].anomaly_score = 900
    /\ g0.nodes["M"].anomaly_score = 0
    /\ g0.nodes["X"].anomaly_score = 0
    /\ graph.nodes["A"].risk_score = 900
    /\ graph.nodes["M"].risk_score = 630
    /\ graph.nodes["X"].risk_score = 441

\* two sources reach X at different distances and X keeps the larger value
C15_WitnessTwoSources ==
    /\ gpc = "propagated"
    /\ DOMAIN g0.edges = {<<"A", "M">>, <<"M", "X">>}
    /\ g0.nodes["A"].anomaly_score = 900
    /\ g0.nodes["M"].anomaly_score = 500
    /\ graph.nodes["X"].risk_score = 441
    /\ graph.nodes["M"].risk_score = 630

\* the paths find_highest_risk_path chooses among
ClaimedCandidates(g) ==
    UNION {UNION {SimplePathsBetween(g, e, t) : t \in SeqRange(Targets(g)) \ {e}} :
              e \in SeqRange(EntryPoints(g))}

\* C16: find_highest_risk_path returns, among the simple paths of at most 10
\* edges from an entry candidate to a different target candidate, one whose
\* sum of risk scores is maximal and, among those, one with the fewest
\* nodes.
C16_HighestRiskPath ==
    LET cands == {p \in ClaimedCandidates(graph) : Len(p) - 1 <= PathCutoff}
    IN (gpc = "searched" /\ cands # {}) =>
          /\ bestPath \in cands
          /\ \A p \in cands :
                /\ PathScore(graph, p) <= PathScore(graph, bestPath)
                /\ PathScore(graph, p) = PathScore(graph, bestPath) =>
                      Len(bestPath) <= Len(p)

\* what holds of the code: the claim's choice when some candidate path has a
\* positive sum, the empty path when none has
C16_HighestPositiveRiskPath ==
    LET cands == {p \in ClaimedCandidates(graph) : Len(p) - 1 <= PathCutoff}
    IN gpc = "searched" =>
          IF \E p \in cands : PathScore(graph, p) > 0
          THEN /\ bestPath \in cands
               /\ \A p \in cands :
                     /\ PathScore(graph, p) <= PathScore(graph, bestPath)
                     /\ PathScore(graph, p) = PathScore(graph, bestPath) =>
                           Len(bestPath) <= Len(p)
          ELSE bestPath = <<>>

\* C17: add_node on an existing id keeps the anomaly score, the risk score
\* and the metadata that the call does not give.
C17_ReAddKeepsUnspecified ==
    (/\ gpc = "mutated"
     /\ gOp.op = "add_node"
     /\ gOp.error = "none"
     /\ HasNode(g0, gOp.node)) =>
        \A a \in {"anomaly_score", "risk_score", "metadata"} \ DOMAIN gOp.attrs :
            graph.nodes[gOp.node][a] = g0.nodes[gOp.node][a]

\* C18: a rejected operation (add_node or add_edge with an unknown type,
\* update_anomaly_score on an absent node) reports its error and leaves
\* nodes, edges and all their attributes as they were.
C18_RejectedLeavesGraph ==
    gpc = "mutated" =>
        LET rejected ==
                \/ gOp.op = "add_node" /\ gOp.type \notin NODE_TYPES
                \/ gOp.op = "add_edge" /\ gOp.type \notin EDGE_TYPES
                \/ gOp.op = "update_anomaly_score" /\ ~HasNode(g0, gOp.node)
        IN /\ rejected <=> gOp.error # "none"
           /\ rejected => graph = g0
           /\ (rejected /\ gOp.op = "update_anomaly_score") => gOp.error = "KeyError"
           /\ (rejected /\ gOp.op # "update_anomaly_score") => gOp.error = "ValueError"

\* add_edge with an unknown type was rejected between two nodes of a graph
\* that has other edges, and the graph is as before
C18_Witness ==
    /\ gpc = "mutated"
    /\ gOp.op = "add_edge"
    /\ gOp.type = "tunnel"
    /\ gOp.error = "ValueError"
    /\ <<gOp.node, gOp.target>> \notin DOMAIN g0.edges
    /\ DOMAIN g0.edges # {}
    /\ graph = g0

(***************************************************************************)
(* Claims about the RemoteLogCollector (SpecRemote).                       *)
(***************************************************************************)

\* C19: collect_from_endpoint makes at most 3 requests: every request that
\* fails (network error, timeout, non-2xx status) before the third is
\* followed by another, and when the third fails too the call returns no
\* record after exactly 3 requests.
C19_AtMostThreeRequests ==
    /\ nRequests <= 3
    /\ rpc = "attempt" => nRequests = rattempt /\ Len(rBackoffs) = nRequests
    /\ (rpc = "attempt" /\ nRequests > 0) => rLast.kind # "response"
    /\ (rpc = "returned" /\ rLast.kind # "response") =>
          /\ nRequests = 3
          /\ ~rOut.present

\* three requests failed, the last with an HTTP error, and the endpoint
\* gave no record
C19_Witness ==
    /\ rpc = "returned"
    /\ rLast.kind = "http_error"
    /\ nRequests = 3
    /\ rBackoffs = <<1, 2>>
    /\ ~rOut.present

\* a body the schema rejects: a required field is missing, cpu_usage or
\* memory_usage is not a number in [0, 100], a count is not a number or
\* parses to a negative integer, the timestamp is not a string
RejectedBySchema(data) ==
    \/ \E k \in REQUIRED_FIELDS : k \notin DOMAIN data
    \/ \E k \in {"cpu_usage", "memory_usage"} \cap DOMAIN data :
          data[k].kind # "num" \/ data[k].v < 0 \/ data[k].v > 1000
    \/ \E k \in {"process_count", "network_connections", "failed_logins"} \cap DOMAIN data :
          data[k].kind # "num" \/ data[k].v <= -10
    \/ "timestamp" \in DOMAIN data /\ data["timestamp"].kind # "str"

C20_WitnessBatch ==
    /\ rpc = "done"
    /\ Len(allLogs) = 1
    /\ allLogs[1].node_id = "r1"
    /\ rLast.kind = "response"
    /\ "failed_logins" \notin DOMAIN rLast.data

\* the records of the calls that returned one, in the order of the calls
RECURSIVE Present(_)
Present(returns) ==
    IF returns = <<>> THEN <<>>
    ELSE IF Head(returns).present THEN <<Head(returns)>> \o Present(Tail(returns))
         ELSE Present(Tail(returns))

\* C21: collect_from_all calls collect_from_endpoint once for every endpoint,
\* in the order of the list and whatever the other endpoints did, and returns
\* exactly the records of the endpoints that gave one, in that order, each
\* with the node_id of its endpoint even when the response named another.
C21_EveryEndpointOnce ==
    /\ Len(rCalls) <= Len(Endpoints)
    /\ \A i \in 1..Len(rCalls) : rCalls[i] = Endpoints[i]
    /\ rpc = "done" =>
          /\ rCalls = Endpoints
          /\ Len(rReturns) = Len(Endpoints)
          /\ allLogs = Present(rReturns)
          /\ \A i \in 1..Len(Endpoints) :
                rReturns[i].present => rReturns[i].node_id = Endpoints[i]

\* the first endpoint failed three times, the second answered with a body
\* that named another node: one record, tagged with the second endpoint
C21_Witness ==
    /\ rpc = "done"
    /\ ~rReturns[1].present
    /\ rLast.kind = "response"
    /\ "node_id" \in DOMAIN rLast.data
    /\ Len(allLogs) = 1
    /\ allLogs[1].node_id = Endpoints[2]

(***************************************************************************)
(* Claims about the functions of the AlertEngine (SpecAlert).              *)
(***************************************************************************)
SeverityRank(severity) ==
    CASE severity = "low" -> 0
      [] severity = "medium" -> 1
      [] severity = "high" -> 2
      [] severity = "critical" -> 3

\* C22: _calculate_severity gives critical for score >= 0.9, high for
\* 0.8 <= score < 0.9, medium for 0.7 <= score < 0.8 and low below 0.7, for
\* every score, and no lower score gets a higher severity.
C22_SeveritySteps ==
    apc = "severity" =>
        /\ sevOut \in {"low", "medium", "high", "critical"}
        /\ sevOut = "critical" <=> sevIn >= 900
        /\ sevOut = "high" <=> (800 <= sevIn /\ sevIn < 900)
        /\ sevOut = "medium" <=> (700 <= sevIn /\ sevIn < 800)
        /\ sevOut = "low" <=> sevIn < 700
        /\ \A lower \in SeverityScores :
              lower <= sevIn =>
                  SeverityRank(CalculateSeverity(lower)) <= SeverityRank(sevOut)

\* the score 0.8, a closed lower bound, is high
C22_Witness ==
    /\ apc = "severity"
    /\ sevIn = 800
    /\ sevOut = "high"

\* the IPs of a dictionary given by its items, and the count of one of them
\* (-1 when the dictionary does not hold it)
Keys(items) == {items[i][1] : i \in 1..Len(items)}

CountOf(items, ip) ==
    IF ip \in Keys(items)
    THEN items[CHOOSE i \in 1..Len(items) : items[i][1] = ip][2]
    ELSE -1

PositionIn(items, ip) == CHOOSE i \in 1..Len(items) : items[i][1] = ip

\* C23: identify_suspicious_ips returns exactly the IPs with more than 5
\* failed attempts or more than 50 connections, each once: first those of
\* failed_attempts_per_ip in the order of that dictionary, then those found
\* only in connection_count_per_ip, in the order of that one.
C23_SuspiciousIps ==
    apc = "ips" =>
        LET byAttempts == {ip \in Keys(ipIn.failed) : CountOf(ipIn.failed, ip) > 5}
            byConnections == {ip \in Keys(ipIn.conns) : CountOf(ipIn.conns, ip) > 50}
        IN /\ SeqRange(ipOut) = byAttempts \cup byConnections
           /\ Len(ipOut) = Cardinality(byAttempts \cup byConnections)
           /\ \A i \in 1..Len(ipOut), j \in 1..Len(ipOut) :
                 i < j =>
                     \/ /\ ipOut[i] \in byAttempts
                        /\ ipOut[j] \in byAttempts
                        /\ PositionIn(ipIn.failed, ipOut[i]) < PositionIn(ipIn.failed, ipOut[j])
                     \/ /\ ipOut[i] \in byAttempts
                        /\ ipOut[j] \notin byAttempts
                     \/ /\ ipOut[i] \notin byAttempts
                        /\ ipOut[j] \notin byAttempts
                        /\ PositionIn(ipIn.conns, ipOut[i]) < PositionIn(ipIn.conns, ipOut[j])

\* ip2 has 6 failed attempts and 51 connections, ip1 51 connections and is
\* listed first in the connection counts: the result is ip2, ip1
C23_Witness ==
    /\ apc = "ips"
    /\ ipIn.failed = <<<<"ip1", 5>>, <<"ip2", 6>>>>
    /\ ipIn.conns = <<<<"ip1", 51>>, <<"ip2", 51>>>>
    /\ ipOut = <<"ip2", "ip1">>

(***************************************************************************)
(* Claims about the read-only operations of the GraphEngine (SpecGraph).   *)
(***************************************************************************)

\* C24: export_json and find_highest_risk_path leave the graph as it was;
\* every export reports node_count and edge_count equal to the numbers of
\* nodes and edges of the graph and to the lengths of its two lists, so two
\* exports with no mutation in between report the same counts.
C24_ExportIdempotent ==
    /\ gOp.op \in {"export_json", "find_highest_risk_path"} => graph = g0
    /\ \A i \in 1..Len(exports) :
          /\ exports[i].metadata.node_count = Cardinality(DOMAIN graph.nodes)
          /\ exports[i].metadata.edge_count = Cardinality(DOMAIN graph.edges)
          /\ exports[i].metadata.node_count = Len(exports[i].nodes)
          /\ exports[i].metadata.edge_count = Len(exports[i].edges)
    /\ Len(exports) = 2 =>
          /\ exports[1].metadata.node_count = exports[2].metadata.node_count
          /\ exports[1].metadata.edge_count = exports[2].metadata.edge_count

\* two exports of a graph of three nodes and two edges, a search between
\* them, at different times
C24_Witness ==
    /\ Len(exports) = 2
    /\ gpc = "exported"
    /\ bestPath # <<>>
    /\ exports[2].metadata.node_count = 3
    /\ exports[2].metadata.edge_count = 2
    /\ exports[1].metadata.generated_at # exports[2].metadata.generated_at

(***************************************************************************)
(* Claims about the start of the process (SpecStartup).                    *)
(***************************************************************************)

\* C25: a critical error (unsupported operating system, scoring model not
\* available) ends the process with a non-zero exit status and nothing runs
\* after it: the collector is never running and no cycle is executed; an
\* error handled as recoverable or as a warning does not end the process.
C25_FatalTerminates ==
    /\ (\E i \in 1..Len(mErrors) : mErrors[i] = "critical") =>
          /\ mpc = "exited"
          /\ exitCode > 0
          /\ ~mRunning
          /\ mCycles = 0
          /\ mErrors[Len(mErrors)] = "critical"
    /\ mpc = "exited" => mErrors # <<>> /\ mErrors[Len(mErrors)] = "critical"
    /\ (mErrors # <<>> /\ mErrors[Len(mErrors)] \in {"recoverable", "warning"}) =>
          mpc \in {"constructed", "running", "returned"}

\* the operating system was supported, the model was not available
C25_Witness ==
    /\ mpc = "exited"
    /\ mOs = "linux"
    /\ mcmd = "start"
    /\ exitCode = 1
    /\ mErrors = <<"critical">>

\* a recoverable error at construction, then a recoverable error and a
\* warning in two cycles: the collector is still running
C25_WitnessRecoverable ==
    /\ mpc = "running"
    /\ mRunning
    /\ mCycles = 2
    /\ mErrors = <<"recoverable", "recoverable", "warning">>
    /\ exitCode = -1

(***************************************************************************)
(* Claims about the remote snapshots and the order of the records in a     *)
(* cycle (SpecCycle).                                                      *)
(***************************************************************************)

\* the IP data of node n's snapshot is in the graph: ingesting it again
\* adds no node and no edge
IpDataIngested(g, n) ==
    LET h == AddIpNodesFromFeatureVector(g, SnapshotOf(n))
    IN /\ DOMAIN h.nodes = DOMAIN g.nodes
       /\ DOMAIN h.edges = DOMAIN g.edges

\* the remote snapshots of the cycle processed without a failure
ProcessedRemotes == {r \in SeqRange(remoteLogs) : rOutcome[r] = "ok"}

\* what the graph holds of a processed remote snapshot, risk aside: its node
\* of type remote_server with the score of its prediction, and its IP data
RemoteInGraph(r) ==
    /\ HasNode(graph, r)
    /\ graph.nodes[r].node_type = "remote_server"
    /\ graph.nodes[r].anomaly_score = RemoteScore(r)
    /\ IpDataIngested(graph, r)

\* C26: a remote snapshot processed in a cycle updates the graph as the
\* local one does, with node type remote_server: score set, IP data
\* ingested, then a risk propagation, so that at the end of the cycle the
\* risk scores reflect the anomaly score of the remote snapshot.
C26_RemoteGraphUpdateAsLocal ==
    (CycleEnded /\ ret = "snapshot") =>
        \A r \in ProcessedRemotes :
            /\ RemoteInGraph(r)
            /\ graph.nodes[r].risk_score >= RemoteScore(r)
            /\ PropagateRisk(graph) = graph

\* what holds of C26: everything but the propagation
C26_RemoteGraphUpdateWithoutRisk ==
    (CycleEnded /\ ret = "snapshot") =>
        \A r \in ProcessedRemotes : RemoteInGraph(r)

\* C27: when scoring of a remote snapshot fails, only its alerting is
\* skipped: its IP data is ingested into the graph and the snapshot is
\* appended to the log history of the cycle.
C27_RemoteScoringFailureSkipsOnlyAlerting ==
    (CycleEnded /\ ret = "snapshot") =>
        \A r \in SeqRange(remoteLogs) :
            rOutcome[r] = "predict" =>
                /\ \A i \in (alerts0 + 1)..Len(alertsFile) : alertsFile[i].node_id # r
                /\ IpDataIngested(graph, r)
                /\ \E i \in (hist0 + 1)..Len(history) : history[i] = r

\* what holds of C27: a remote snapshot whose scoring failed leaves no trace
\* in the alert file or in the history of the cycle
C27_RemoteScoringFailureSkipsSnapshot ==
    (CycleEnded /\ ret = "snapshot") =>
        \A r \in SeqRange(remoteLogs) :
            rOutcome[r] = "predict" =>
                /\ \A i \in (alerts0 + 1)..Len(alertsFile) : alertsFile[i].node_id # r
                /\ \A i \in (hist0 + 1)..Len(history) : history[i] # r

\* the place of a record among the records one cycle produces: the local
\* snapshot, its alert, then for each endpoint in order its snapshot and
\* its alert
ProductionOrder(rec) ==
    LET k == IF rec.node_id = LocalNode THEN 0
             ELSE CHOOSE i \in 1..Len(Endpoints) : Endpoints[i] = rec.node_id
    IN 2 * k + (IF rec.file = "history" THEN 0 ELSE 1)

RECURSIVE NodesWritten(_, _)
NodesWritten(records, file) ==
    IF records = <<>> THEN <<>>
    ELSE (IF Head(records).file = file THEN <<Head(records).node_id>> ELSE <<>>)
         \o NodesWritten(Tail(records), file)

\* C28: the records are persisted in the order they are produced: within a
\* cycle the local snapshot before its alert and before every record of a
\* remote snapshot, the remote snapshots in endpoint order, and the records
\* of an earlier cycle before those of a later one; the two files hold the
\* records in that order.
C28_PersistedInProductionOrder ==
    /\ \A i \in 1..Len(persisted), j \in 1..Len(persisted) :
          i < j =>
              \/ persisted[i].cycle < persisted[j].cycle
              \/ /\ persisted[i].cycle = persisted[j].cycle
                 /\ ProductionOrder(persisted[i]) < ProductionOrder(persisted[j])
    /\ history = NodesWritten(persisted, "history")
    /\ [i \in 1..Len(alertsFile) |-> alertsFile[i].node_id] = NodesWritten(persisted, "alerts")

\* the first cycle stored its local snapshot; the second stored the local
\* snapshot, its alert, and both remote snapshots
C28_Witness ==
    /\ CycleEnded
    /\ cycleNo = 2
    /\ history = <<LocalNode, LocalNode, "r1", "r2">>
    /\ Len(persisted) >= 5
    /\ persisted[1].cycle = 1
    /\ persisted[2] = Written("history", LocalNode, 2)
    /\ persisted[3] = Written("alerts", LocalNode, 2)

\* every attempt of the save that has returned failed
AllAttemptsFailed ==
    /\ SaveReturned
    /\ sresult = "False"
    /\ "convert" \notin sfaults

\* C29: the failed attempt number k of a save is followed by a backoff wait
\* of 0.1 * 2^k seconds: a save with max_retries = 3 whose attempts all
\* failed has waited 0.1 s, 0.2 s and 0.4 s, in that order, when it reports
\* the failure (waits in tenths of a second).
C29_BackoffAfterEveryFailedAttempt ==
    AllAttemptsFailed => slept = <<1, 2, 4>>

\* what the code does: a wait of 0.1 * 2^k seconds follows the failed
\* attempt k only when another attempt follows it, so a save whose three
\* attempts all failed has waited 0.1 s and 0.2 s
C29_BackoffBetweenAttempts ==
    /\ slept = [k \in 1..sattempt |-> 2 ^ (k - 1)]
    /\ AllAttemptsFailed => slept = <<1, 2>>

\* how often node n occurs in the sequence q
Occurrences(q, n) == Cardinality({i \in 1..Len(q) : q[i] = n})

\* the graph has a self-loop and a cycle through two nodes
HasLoopAndCycle(g) ==
    /\ \E n \in DOMAIN g.nodes : <<n, n>> \in DOMAIN g.edges
    /\ \E n, m \in DOMAIN g.nodes :
          n # m /\ <<n, m>> \in DOMAIN g.edges /\ <<m, n>> \in DOMAIN g.edges

\* C30: propagate_risk terminates on every finite graph, graphs with cycles
\* and self-loops included: within one traversal from a source each node is
\* put on the queue at most once and has its risk written at most once, and
\* a call that has begun returns.
C30_PropagateRiskTerminates ==
    /\ [](\A n \in GraphNodes :
             Occurrences(pEnqueued, n) <= 1 /\ Occurrences(pUpdated, n) <= 1)
    /\ (ppc = "sources" ~> ppc = "done")

\* propagate_risk has returned on a graph with a self-loop and a cycle whose
\* last traversal reached all three nodes
C30_Witness ==
    /\ ppc = "done"
    /\ HasLoopAndCycle(pGraph0)
    /\ Len(pUpdated) = 3
    /\ Len(pEnqueued) = 3

\* the queue loop and the level-by-level traversal give the same scores
QueueAgreesWithLevels ==
    ppc = "done" => pGraph = PropagateInOrder(pGraph0, HighRiskNodes(pGraph0))

\* the entry candidates of a graph
EntryCandidates(g) ==
    LET typed == {n \in DOMAIN g.nodes : g.nodes[n].node_type \in {"remote_server", "external_ip"}}
    IN IF typed # {} THEN typed
       ELSE {n \in DOMAIN g.nodes : g.nodes[n].anomaly_score > 500}

\* the target candidates of a graph
TargetCandidates(g) ==
    LET machines == {n \in DOMAIN g.nodes :
                        g.nodes[n].node_type = "machine" /\ g.nodes[n].anomaly_score > 700}
    IN IF machines # {} THEN machines
       ELSE {n \in DOMAIN g.nodes : g.nodes[n].anomaly_score > 0}

\* the nodes reached from the set seen along the edges of g
RECURSIVE ReachedFrom(_, _)
ReachedFrom(g, seen) ==
    LET more == seen \cup UNION {Successors(g, n) : n \in seen}
    IN IF more = seen THEN seen ELSE ReachedFrom(g, more)

\* an entry candidate and a different target candidate are connected
SomePairConnected(g) ==
    \E e \in EntryCandidates(g), t \in TargetCandidates(g) :
        e # t /\ t \in ReachedFrom(g, {e})

\* find_highest_risk_path has returned path p for graph g
Searched == gpc = "searched"

C31_WitnessFallbackTarget ==
    /\ Searched
    /\ bestPath # <<>>
    /\ graph.nodes[bestPath[1]].node_type = "remote_server"
    /\ graph.nodes[bestPath[Len(bestPath)]].node_type = "external_ip"
    /\ "M" \in DOMAIN graph.nodes

\* add_ip_nodes_from_feature_vector was the last operation
Ingested == gOp.op = "add_ip_nodes_from_feature_vector"

\* the anomaly score of node n in graph g, 0 for a node not yet there
AnomalyIn(g, n) == IF n \in DOMAIN g.nodes THEN g.nodes[n].anomaly_score ELSE 0

\* min(1, [conn > 50] * min(0.5, conn / 200) + [failed > 5] * min(0.5, failed / 20)),
\* in thousandths
IpAnomaly(conn, attempts) ==
    LET byConn == IF conn > 50 THEN (IF conn * 5 < 500 THEN conn * 5 ELSE 500) ELSE 0
        byFailed == IF attempts > 5 THEN (IF attempts * 50 < 500 THEN attempts * 50 ELSE 500) ELSE 0
    IN IF byConn + byFailed < 1000 THEN byConn + byFailed ELSE 1000

\* C32: an ingest sets the anomaly_score of every IP of source_ips and
\* destination_ips to max(current, ipAnomaly); ipAnomaly is 0 when
\* conn <= 50 and failed <= 5 and lies in [0, 1]; an ingest never lowers the
\* anomaly_score of a node.
C32_IpAnomalyIsMax ==
    /\ Ingested =>
          /\ \A ip \in SeqRange(lastFv.source_ips) \cup SeqRange(lastFv.destination_ips) :
                LET a == IpAnomaly(lastFv.connection_count_per_ip[ip],
                                   lastFv.failed_attempts_per_ip[ip])
                IN /\ ip \in DOMAIN graph.nodes
                   /\ graph.nodes[ip].anomaly_score =
                         (IF AnomalyIn(g0, ip) > a THEN AnomalyIn(g0, ip) ELSE a)
          /\ \A n \in DOMAIN g0.nodes :
                /\ n \in DOMAIN graph.nodes
                /\ graph.nodes[n].anomaly_score >= g0.nodes[n].anomaly_score
    /\ ipScore # NoScore =>
          /\ ipScore.anomaly = IpAnomaly(ipScore.connection_count, ipScore.failed_attempts)
          /\ ipScore.anomaly >= 0 /\ ipScore.anomaly <= 1000
          /\ (ipScore.connection_count <= 50 /\ ipScore.failed_attempts <= 5) =>
                ipScore.anomaly = 0

\* an ingest raised the score of an IP node from 0.3 to 1.0
C32_Witness ==
    /\ Ingested
    /\ AnomalyIn(g0, "X") = 300
    /\ graph.nodes["X"].anomaly_score = 1000
    /\ lastFv.connection_count_per_ip["X"] = 120

\* an ingest with a smaller ipAnomaly left the higher score of the IP node
C32_WitnessKept ==
    /\ Ingested
    /\ AnomalyIn(g0, "X") = 900
    /\ graph.nodes["X"].anomaly_score = 900
    /\ lastFv.failed_attempts_per_ip["X"] = 6

\* the pure function at the threshold of each term
C32_WitnessThreshold ==
    /\ ipScore.connection_count = 50 /\ ipScore.failed_attempts = 5
    /\ ipScore.anomaly = 0

\* the edges from the machine of the feature vector to its destination IPs
DestinationEdges(vector) ==
    {<<vector.node_id, ip>> : ip \in SeqRange(vector.destination_ips)}

\* C33: an ingest adds an ip_connection edge from the snapshot's node to a
\* destination IP only when no edge between them exists: an existing edge
\* keeps its type, ingesting the same snapshot again adds no edge, and no
\* edge is added for an IP that is only in source_ips.
C33_EdgesOnlyWhenAbsent ==
    Ingested =>
        /\ DOMAIN graph.edges = (DOMAIN g0.edges) \cup DestinationEdges(lastFv)
        /\ \A e \in DOMAIN graph.edges :
              graph.edges[e] = (IF e \in DOMAIN g0.edges THEN g0.edges[e] ELSE "ip_connection")
        /\ AddIpNodesFromFeatureVector(graph, lastFv).edges = graph.edges

\* the edge to the destination IP existed with another type and kept it,
\* and the feature vector has an IP that is only a source
C33_Witness ==
    /\ Ingested
    /\ <<"M", "X">> \in DOMAIN g0.edges
    /\ graph.edges[<<"M", "X">>] = "process_spawn"
    /\ lastFv.source_ips = <<"A">>
    /\ lastFv.destination_ips = <<"X">>
    /\ <<"M", "A">> \notin DOMAIN graph.edges

\* the ingest added the edge to the destination IP
C33_WitnessAdded ==
    /\ Ingested
    /\ <<"M", "X">> \notin DOMAIN g0.edges
    /\ graph.edges[<<"M", "X">>] = "ip_connection"

\* C34: in every state reached by a sequence of add_node, add_edge,
\* update_anomaly_score, add_ip_nodes_from_feature_vector and propagate_risk,
\* every node has a node_type among machine, process, service,
\* remote_server and external_ip, and no node is ever removed.
C34_NodeTypesValid ==
    /\ \A n \in DOMAIN graph.nodes : graph.nodes[n].node_type \in NODE_TYPES
    /\ DOMAIN g0.nodes \subseteq DOMAIN graph.nodes

\* what the code keeps: no node is removed, and a node has one of the five
\* types unless add_edge created it, which leaves it without a node_type
C34_NodesPersist ==
    /\ DOMAIN g0.nodes \subseteq DOMAIN graph.nodes
    /\ \A n \in DOMAIN graph.nodes :
          \/ graph.nodes[n].node_type \in NODE_TYPES
          \/ /\ graph.nodes[n].node_type = BareNode.node_type
             /\ \/ n \in DOMAIN g0.nodes /\ g0.nodes[n].node_type = BareNode.node_type
                \/ gOp.op = "add_edge" /\ n \in {gOp.node, gOp.target}

\* the scores of every node of g lie in [0, 1] (thousandths)
ScoresInRange(g) ==
    \A n \in DOMAIN g.nodes :
        /\ g.nodes[n].anomaly_score >= 0 /\ g.nodes[n].anomaly_score <= 1000
        /\ g.nodes[n].risk_score >= 0 /\ g.nodes[n].risk_score <= 1000

\* no node of g has a lower risk_score in h
RiskNotLowered(g, h) ==
    \A n \in DOMAIN g.nodes :
        n \in DOMAIN h.nodes /\ h.nodes[n].risk_score >= g.nodes[n].risk_score

\* C35: in every state reached through collect_once cycles (scores of the
\* scorer in [0, 1], decay factor 0.7) every node of the graph has its
\* anomaly_score and its risk_score in [0, 1], and no propagation pass, as
\* no step of a cycle, lowers the risk_score of a node.
C35_ScoresInRangeRiskKept ==
    /\ []ScoresInRange(graph)
    /\ [][RiskNotLowered(graph, graph')]_vars

\* the second cycle scored the local machine lower than the first and its
\* risk_score stayed
C35_Witness ==
    /\ cycleNo = 2
    /\ cpc = "save_log"
    /\ "graph" \notin failed
    /\ HasNode(graph, LocalNode)
    /\ graph.nodes[LocalNode].anomaly_score = 300
    /\ graph.nodes[LocalNode].risk_score = 900

\* process_prediction has returned an alert
AlertReturned == apc = "called" /\ aOut.present

\* C36: with a threshold of at least 0.7 no alert has severity low: every
\* alert is medium, high or critical (also when the severity derivation
\* fails), so an alert of severity low comes only from an engine with a
\* threshold below 0.7.
C36_NoLowAboveDefaultThreshold ==
    AlertReturned =>
        /\ threshold >= 700 => aOut.severity \in {"medium", "high", "critical"}
        /\ aOut.severity = "low" => threshold < 700 /\ aOut.anomaly_score < 700

\* the lowest alert of an engine with the default threshold: medium
C36_Witness ==
    /\ AlertReturned
    /\ threshold = 700
    /\ aOut.anomaly_score = 701
    /\ "severity" \notin aIn.faults
    /\ aOut.severity = "medium"

\* an engine with threshold 0.5 returns an alert of severity low
C36_WitnessLow ==
    /\ AlertReturned
    /\ threshold = 500
    /\ aOut.severity = "low"

\* propagate_risk was the operation called on the given graph
PropagatedOnce == gpc = "propagated"

\* graphs g and h differ at most in the risk scores of their nodes
SameButRisk(g, h) ==
    /\ DOMAIN g.nodes = DOMAIN h.nodes
    /\ g.edges = h.edges
    /\ \A n \in DOMAIN g.nodes :
          [h.nodes[n] EXCEPT !.risk_score = g.nodes[n].risk_score] = g.nodes[n]

\* C37: propagate_risk is idempotent: a second pass with the same decay
\* factor and no change of the graph in between leaves every risk_score as
\* it is, and a pass changes no anomaly_score, no node and no edge.
C37_PropagateIdempotent ==
    PropagatedOnce =>
        /\ SameButRisk(g0, graph)
        /\ \A order \in Orders(RiskSources(graph)) :
              PropagateInOrder(graph, order) = graph

\* a pass that raised the risk of a node two hops from its source
C37_Witness ==
    /\ PropagatedOnce
    /\ g0 # graph
    /\ \E s, m, n \in DOMAIN graph.nodes :
          /\ s # m /\ m # n /\ s # n
          /\ <<s, m>> \in DOMAIN graph.edges /\ <<m, n>> \in DOMAIN graph.edges
          /\ <<s, n>> \notin DOMAIN graph.edges
          /\ g0.nodes[s].anomaly_score = 900
          /\ g0.nodes[n].risk_score = 0
          /\ graph.nodes[n].risk_score = 441

C38_WitnessPath ==
    /\ Searched
    /\ Len(bestPath) = 3
    /\ PathScore(graph, bestPath) > 0

\* the entries a reader gets from a file: those of the array, none from a
\* file that is absent, corrupt or no array
EntriesOf(f) == IF f.state = "array" THEN f.data ELSE <<>>

\* the entries q are still in the file f, as its first entries
StillStored(q, f) ==
    /\ Len(EntriesOf(f)) >= Len(q)
    /\ \A i \in 1..Len(q) : EntriesOf(f)[i] = q[i]

\* a step of a save leaves the file of the other collection as it is
OtherFileUntouched ==
    \A k \in FileNames : (spc # "new" /\ files'[k] # files[k]) => k = sfile

\* C39: a save_log or save_alert call that returns False leaves the entries
\* stored in its file before the call as they are, and a save never changes
\* the file of the other collection.
C39_FailedSaveKeepsEntries ==
    /\ []((SaveReturned /\ sresult = "False") => StillStored(EntriesOf(sstart), files[sfile]))
    /\ [][OtherFileUntouched]_vars

\* what the code keeps: a save that returns False without a dump cut short
\* leaves the stored entries, and no save changes the other file
C39_FailedSaveWithoutDumpKeepsEntries ==
    /\ []((SaveReturned /\ sresult = "False" /\ "dump" \notin sfaults) =>
             StillStored(EntriesOf(sstart), files[sfile]))
    /\ [][OtherFileUntouched]_vars

\* no save_log is in progress
NoSaveInProgress == \A t \in Savers : svpc[t] = "idle"

\* every entry whose save_log returned True is in the file
ReturnedTrueInFile ==
    /\ svTrue # {} => hfile.state = "array"
    /\ \A e \in svTrue : \E i \in 1..Len(hfile.data) : hfile.data[i] = e

\* C40: when a cycle of the background thread and a synchronous collect_once
\* of the controlling thread save to the same history file concurrently, no
\* record is lost: every save_log that returned True has its record in the
\* file afterwards, in every interleaving of the two read-append-write
\* sequences.
C40_NoRecordLost ==
    NoSaveInProgress => ReturnedTrueInFile

\* what the code keeps: the records of saves that never ran while the other
\* thread was inside a save
C40_NoRecordLostWithoutOverlap ==
    (NoSaveInProgress /\ ~overlapped) => ReturnedTrueInFile

====
